---- MODULE Spec2Model ----
(***************************************************************************)
(* Contract Intelligence Parser: the processing pipeline (parse_contract), *)
(* the completeness score (calculate_score), the gap analysis              *)
(* (identify_gaps) and the section confidence aggregation.                 *)
(*                                                                         *)
(* Python dicts are functions whose DOMAIN is the set of keys present;     *)
(* strings built by f-strings are sequences of string pieces; an optional  *)
(* result is a sequence of length 0 or 1.                                  *)
(***************************************************************************)
EXTENDS Integers, Sequences, FiniteSets, TLC

\* ------------------------------------------------------------------ bounds
MaxParties == 2
MaxMatches == 3
MaxSlot == 12
MaxLines == 11

\* --------------------------------------------------------------- constants
max_retries == 3

SCORING_WEIGHTS ==
  [financial_completeness |-> 30, party_identification |-> 25,
   payment_terms_clarity |-> 20, sla_definition |-> 15,
   contact_information |-> 10]

None == "None"
EmptyDict == <<>>

Invocations == {1, 2}
ContractIds == {"c1", "c2"}

\* ------------------------------------------------------- dict / truthiness
Min(a, b) == IF a < b THEN a ELSE b

\* d.get(k) is truthy, for a string-valued key ("" and None are falsy)
TruthyStr(d, k) == k \in DOMAIN d /\ d[k] \notin {"", None}
\* d.get(k) is truthy, for a list-valued key
TruthySeq(d, k) == k \in DOMAIN d /\ Len(d[k]) > 0
\* d.get(k) is truthy, for a dict-valued key
TruthyDict(d, k) == k \in DOMAIN d /\ DOMAIN d[k] # {}
\* d.get(k) is truthy, for a number-valued key
TruthyNum(d, k) == k \in DOMAIN d /\ d[k] # 0

RECURSIVE SumSeq(_)
SumSeq(s) == IF Len(s) = 0 THEN 0 ELSE Head(s) + SumSeq(Tail(s))

\* ---------------------------------------------------------- calculate_score
FinancialScore(data) ==
  IF TruthyDict(data, "financial_details")
  THEN LET financial == data["financial_details"]
           financial_score ==
               (IF TruthyStr(financial, "total_value") THEN 10 ELSE 0)
             + (IF TruthySeq(financial, "line_items") /\ Len(financial["line_items"]) > 0
                THEN 10 ELSE 0)
             + (IF TruthyStr(financial, "currency") THEN 5 ELSE 0)
             + (IF TruthyDict(financial, "tax_information") THEN 5 ELSE 0)
       IN  Min(financial_score, SCORING_WEIGHTS["financial_completeness"])
  ELSE 0

\* the party points granted from the first party on
PartyScoreOneParty(data) ==
  IF TruthySeq(data, "parties")
  THEN 15 + (IF \E i \in 1..Len(data["parties"]) :
                    TruthyStr(data["parties"][i], "legal_entity") THEN 5 ELSE 0)
          + (IF \E i \in 1..Len(data["parties"]) :
                    TruthyStr(data["parties"][i], "authorized_signatory") THEN 5 ELSE 0)
  ELSE 0

PartyScore(data) ==
  IF TruthySeq(data, "parties")
  THEN LET parties == data["parties"]
       IN  IF Len(parties) >= 2
           THEN LET party_score ==
                      15
                    + (IF \E i \in 1..Len(parties) : TruthyStr(parties[i], "legal_entity")
                       THEN 5 ELSE 0)
                    + (IF \E i \in 1..Len(parties) : TruthyStr(parties[i], "authorized_signatory")
                       THEN 5 ELSE 0)
                IN  Min(party_score, SCORING_WEIGHTS["party_identification"])
           ELSE 0
  ELSE 0

PaymentScore(data) ==
  IF TruthyDict(data, "payment_structure")
  THEN LET payment == data["payment_structure"]
           payment_score ==
               (IF TruthyStr(payment, "terms") THEN 8 ELSE 0)
             + (IF TruthyStr(payment, "schedule") THEN 6 ELSE 0)
             + (IF TruthyStr(payment, "method") THEN 6 ELSE 0)
       IN  Min(payment_score, SCORING_WEIGHTS["payment_terms_clarity"])
  ELSE 0

SlaScore(data) ==
  IF TruthyDict(data, "sla_terms")
  THEN LET sla == data["sla_terms"]
           sla_score ==
               (IF TruthyStr(sla, "response_time") THEN 5 ELSE 0)
             + (IF TruthyStr(sla, "uptime_guarantee") THEN 5 ELSE 0)
             + (IF TruthyStr(sla, "penalties") THEN 5 ELSE 0)
       IN  Min(sla_score, SCORING_WEIGHTS["sla_definition"])
  ELSE 0

ContactScore(data) ==
  IF TruthyDict(data, "contact_information")
  THEN LET contact == data["contact_information"]
           contact_score ==
               (IF TruthyStr(contact, "billing_contact") THEN 5 ELSE 0)
             + (IF TruthyStr(contact, "technical_contact") THEN 5 ELSE 0)
       IN  Min(contact_score, SCORING_WEIGHTS["contact_information"])
  ELSE 0

\* min written as max in the final cap
calculate_score_max(data) ==
  LET total == FinancialScore(data) + PartyScore(data) + PaymentScore(data)
                 + SlaScore(data) + ContactScore(data)
  IN  IF total > 100 THEN total ELSE 100

calculate_score(data) ==
  Min(FinancialScore(data) + PartyScore(data) + PaymentScore(data)
        + SlaScore(data) + ContactScore(data), 100)

\* ------------------------------------------------------------ identify_gaps
Gap(field, importance, status, description) ==
  [field |-> field, importance |-> importance, status |-> status,
   description |-> description]

FinancialGaps(data) ==
  IF ~TruthyDict(data, "financial_details")
  THEN << Gap("Financial Details", "High", "Missing", "No financial information found") >>
  ELSE LET financial == data["financial_details"]
       IN  (IF ~TruthyStr(financial, "total_value")
            THEN << Gap("Contract Value", "High", "Missing", "Total contract value not specified") >>
            ELSE << >>)
        \o (IF ~TruthyStr(financial, "currency")
            THEN << Gap("Currency", "Medium", "Missing", "Currency not specified") >>
            ELSE << >>)

\* the gap reported only when no party at all was identified
PartyGapsNoParty(data) ==
  LET parties == IF "parties" \in DOMAIN data THEN data["parties"] ELSE << >>
  IN  IF Len(parties) < 1
      THEN << Gap("Contract Parties", "High", "Incomplete", "Less than 2 parties identified") >>
      ELSE << >>

\* extracted_data.get("parties", []) : the default applies to an absent key
PartyGaps(data) ==
  LET parties == IF "parties" \in DOMAIN data THEN data["parties"] ELSE << >>
  IN  IF Len(parties) < 2
      THEN << Gap("Contract Parties", "High", "Incomplete", "Less than 2 parties identified") >>
      ELSE << >>

PaymentGaps(data) ==
  IF ~TruthyDict(data, "payment_structure")
  THEN << Gap("Payment Terms", "High", "Missing", "Payment terms not found") >>
  ELSE IF ~TruthyStr(data["payment_structure"], "terms")
       THEN << Gap("Payment Schedule", "High", "Missing", "Payment schedule not specified") >>
       ELSE << >>

SlaGaps(data) ==
  IF ~TruthyDict(data, "sla_terms")
  THEN << Gap("Service Level Agreements", "Medium", "Missing", "SLA terms not found") >>
  ELSE << >>

ContactGaps(data) ==
  IF ~TruthyDict(data, "contact_information")
  THEN << Gap("Contact Information", "Medium", "Missing", "Contact details not found") >>
  ELSE << >>

\* the party rule evaluated before the financial rule
identify_gaps_party_first(data) ==
  PartyGaps(data) \o FinancialGaps(data) \o PaymentGaps(data)
    \o SlaGaps(data) \o ContactGaps(data)

identify_gaps(data) ==
  FinancialGaps(data) \o PartyGaps(data) \o PaymentGaps(data)
    \o SlaGaps(data) \o ContactGaps(data)

\* -------------------------------------------- _calculate_section_confidence
\* round(total / n, 2), in hundredths (ties to even)
Round2(total, n) ==
  LET q == (total * 100) \div n
      r == (total * 100) % n
  IN  IF 2 * r > n \/ (2 * r = n /\ q % 2 = 1) THEN q + 1 ELSE q

RECURSIVE PartyConfidences(_)
PartyConfidences(parties) ==
  IF Len(parties) = 0 THEN << >>
  ELSE << IF "confidence" \in DOMAIN Head(parties) THEN Head(parties)["confidence"] ELSE 0 >>
         \o PartyConfidences(Tail(parties))

RECURSIVE KeyConfidences(_, _)
KeyConfidences(section, keys) ==
  IF Len(keys) = 0 THEN << >>
  ELSE (IF TruthyNum(section, Head(keys)) THEN << section[Head(keys)] >> ELSE << >>)
         \o KeyConfidences(section, Tail(keys))

FinancialConfidences(financial) ==
  (IF TruthyNum(financial, "total_value_confidence")
   THEN << financial["total_value_confidence"] >> ELSE << >>)
  \o (IF "tax_information" \in DOMAIN financial
         /\ TruthyNum(financial["tax_information"], "confidence")
      THEN << financial["tax_information"]["confidence"] >> ELSE << >>)

\* one section's entry of the result: a one-key dict, or the empty dict
Entry(key, confidences) ==
  IF Len(confidences) > 0
  THEN [k \in {key} |-> Round2(SumSeq(confidences), Len(confidences))]
  ELSE EmptyDict

Merge(a, b) ==
  [k \in DOMAIN a \cup DOMAIN b |-> IF k \in DOMAIN b THEN b[k] ELSE a[k]]

calculate_section_confidence(data) ==
  LET parties_entry ==
        IF TruthySeq(data, "parties")
        THEN [k \in {"parties"} |->
                Round2(SumSeq(PartyConfidences(data["parties"])), Len(data["parties"]))]
        ELSE EmptyDict
      financial_entry ==
        IF TruthyDict(data, "financial_details")
        THEN Entry("financial_details", FinancialConfidences(data["financial_details"]))
        ELSE EmptyDict
      payment_entry ==
        IF TruthyDict(data, "payment_structure")
        THEN Entry("payment_structure",
                   KeyConfidences(data["payment_structure"],
                     << "terms_confidence", "schedule_confidence", "method_confidence" >>))
        ELSE EmptyDict
      sla_entry ==
        IF TruthyDict(data, "sla_terms")
        THEN Entry("sla_terms",
                   KeyConfidences(data["sla_terms"],
                     << "response_time_confidence", "uptime_confidence", "penalties_confidence" >>))
        ELSE EmptyDict
      account_entry ==
        IF "account_information" \in DOMAIN data
           /\ TruthyNum(data["account_information"], "account_confidence")
        THEN [k \in {"account_information"} |->
                100 * data["account_information"]["account_confidence"]]
        ELSE EmptyDict
  IN  Merge(Merge(Merge(Merge(parties_entry, financial_entry), payment_entry),
                  sla_entry), account_entry)

\* ------------------------------------------------- extract_confidence_score
\* What the function reads of (text, pattern, field_name), as a record:
\*   matches  re.findall(pattern, text): the matched strings
\*   hits     the start positions of the occurrences of matches[0] in the
\*            text, ascending (re.escape(matches[0]) is searched, not the pattern)
\*   at       the index in hits of the occurrence the pattern matched
\*   breaks   the positions at which a line starts after a newline
\*   names    the start positions of the occurrences of field_name.lower()
\*   hit_len, name_len, len   the lengths of matches[0], field_name and text
Window == 50

Max(a, b) == IF a > b THEN a ELSE b

SetMax(S) == CHOOSE x \in S : \A y \in S : y <= x
SetMin(S) == CHOOSE x \in S : \A y \in S : x <= y

\* "." does not match a newline: the line that holds position p
LineStart(t, p) == SetMax({0} \cup {b \in t.breaks : b <= p})
LineEnd(t, p) == SetMin({t.len} \cup {b - 1 : b \in {c \in t.breaks : c > p}})

\* re.search(".{0,50}" + re.escape(matches[0]) + ".{0,50}", text): the leftmost
\* start from which an occurrence is reached within 50 characters of its line
ContextStart(t) == Max(t.hits[1] - Window, LineStart(t, t.hits[1]))

\* the greedy ".{0,50}" keeps the last occurrence it can reach
ContextHit(t) ==
  SetMax({t.hits[i] : i \in {j \in 1..Len(t.hits) :
                                /\ t.hits[j] <= ContextStart(t) + Window
                                /\ LineStart(t, t.hits[j]) <= ContextStart(t)}})

ContextEnd(t) ==
  Min(ContextHit(t) + t.hit_len + Window, LineEnd(t, ContextHit(t)))

\* field_name.lower() in match_context.group().lower()
NameInContext(t) ==
  \E f \in t.names : ContextStart(t) <= f /\ f + t.name_len <= ContextEnd(t)

extract_confidence_score(t) ==
  IF Len(t.matches) = 0
  THEN [value |-> None, confidence |-> 0]
  ELSE LET confidence == Min(85 + Len(t.matches) * 5, 95)
           boosted == IF Len(t.matches) = 1 /\ NameInContext(t)
                      THEN confidence + 10 ELSE confidence
       IN  [value |-> IF Len(t.matches) = 1 THEN t.matches[1] ELSE t.matches,
            confidence |-> Min(boosted, 95),
            matches_count |-> Len(t.matches)]

\* --------------------------------------- single-valued fields of the extractor
\* if result["value"]: None, "" and [] are falsy
TruthyValue(result) ==
  /\ "matches_count" \in DOMAIN result
  /\ IF result["matches_count"] = 1 THEN result["value"] # ""
                                    ELSE Len(result["value"]) > 0

RECURSIVE FirstMatchFrom(_, _)
FirstMatchFrom(scans, i) ==
  IF i > Len(scans)
  THEN [found |-> FALSE, evaluated |-> Len(scans)]
  ELSE LET result == extract_confidence_score(scans[i])
       IN  IF TruthyValue(result)
           THEN [found |-> TRUE, value |-> result["value"],
                 confidence |-> result["confidence"], evaluated |-> i]
           ELSE FirstMatchFrom(scans, i + 1)

\* the loop without its break: the last pattern with a value overwrites
RECURSIVE LastMatchFrom(_, _)
LastMatchFrom(scans, i) ==
  IF i = 0
  THEN [found |-> FALSE, evaluated |-> Len(scans)]
  ELSE LET result == extract_confidence_score(scans[i])
       IN  IF TruthyValue(result)
           THEN [found |-> TRUE, value |-> result["value"],
                 confidence |-> result["confidence"], evaluated |-> Len(scans)]
           ELSE LastMatchFrom(scans, i - 1)

LastMatch(scans) == LastMatchFrom(scans, Len(scans))

\* for pattern in patterns: result = extract_confidence_score(text, pattern, name);
\* if result["value"]: ...; break.  "evaluated" counts the patterns tried
FirstMatch(scans) == FirstMatchFrom(scans, 1)

\* the two keys a field contributes to its section
FieldEntry(r, key, confidence_key, value) ==
  IF r.found
  THEN [k \in {key, confidence_key} |-> IF k = key THEN value ELSE r.confidence]
  ELSE EmptyDict

\* a text is given by what each pattern of each field finds in it
extract_payment_structure(text) ==
  LET terms == FirstMatch(text["terms"])
      schedule == FirstMatch(text["schedule"])
      method == FirstMatch(text["method"])
  IN  Merge(Merge(IF terms.found
                  THEN FieldEntry(terms, "terms", "terms_confidence",
                                  << "Net ", terms.value >>)
                  ELSE EmptyDict,
                  IF schedule.found
                  THEN FieldEntry(schedule, "schedule", "schedule_confidence", schedule.value)
                  ELSE EmptyDict),
            IF method.found
            THEN FieldEntry(method, "method", "method_confidence", method.value)
            ELSE EmptyDict)

extract_sla_terms(text) ==
  LET response == FirstMatch(text["response_time"])
      uptime == FirstMatch(text["uptime"])
      penalties == FirstMatch(text["penalties"])
  IN  Merge(Merge(IF response.found
                  THEN FieldEntry(response, "response_time", "response_time_confidence",
                                  response.value)
                  ELSE EmptyDict,
                  IF uptime.found
                  THEN FieldEntry(uptime, "uptime_guarantee", "uptime_confidence",
                                  uptime.value)
                  ELSE EmptyDict),
            IF penalties.found
            THEN FieldEntry(penalties, "penalties", "penalties_confidence", penalties.value)
            ELSE EmptyDict)

extract_account_information(text) ==
  LET account == FirstMatch(text["account_number"])
  IN  Merge(IF account.found
            THEN FieldEntry(account, "account_number", "account_confidence", account.value)
            ELSE EmptyDict,
            IF text["address"] # ""
            THEN [billing_address |-> text["address"]] ELSE EmptyDict)

\* the patterns each call tried, per field
Evaluated(text) ==
  [f \in DOMAIN text \ {"address"} |-> FirstMatch(text[f]).evaluated]

\* ------------------------------------------- _extract_parties, _extract_line_items
\* A matched string is a sequence of pieces, a piece being a run of blanks " "
\* or a run of other characters; text.chars gives the length of each piece.
RECURSIVE StrLen(_, _)
StrLen(chars, str) ==
  IF Len(str) = 0 THEN 0 ELSE chars[Head(str)] + StrLen(chars, Tail(str))

\* the string kept as matched
StripNothing(str) == str

\* str.strip()
RECURSIVE Strip(_)
Strip(str) ==
  IF Len(str) = 0 THEN str
  ELSE IF Head(str) = " " THEN Strip(Tail(str))
  ELSE IF str[Len(str)] = " " THEN Strip(SubSeq(str, 1, Len(str) - 1))
  ELSE str

RECURSIVE Flatten(_)
Flatten(lists) == IF Len(lists) = 0 THEN << >> ELSE Head(lists) \o Flatten(Tail(lists))

\* the loops over self.party_patterns and over the matches of each pattern;
\* text.found lists the matches of each pattern, text.role, text.legal_entity
\* and text.mentions what the text says about a name
RECURSIVE CollectParties(_, _, _)
CollectParties(text, matches, parties) ==
  IF Len(matches) = 0 THEN parties
  ELSE LET party_name == Strip(Head(matches))
       IN  IF /\ StrLen(text.chars, party_name) > 3
              /\ party_name \notin {parties[i]["name"] : i \in 1..Len(parties)}
           THEN CollectParties(text, Tail(matches),
                  Append(parties,
                    [name |-> party_name,
                     role |-> text.role[party_name],
                     legal_entity |-> text.legal_entity[party_name],
                     confidence |->
                       extract_confidence_score(text.mentions[party_name])["confidence"]]))
           ELSE CollectParties(text, Tail(matches), parties)

\* return parties[:4]
extract_parties(text) ==
  LET parties == CollectParties(text, Flatten(text.found), << >>)
  IN  SubSeq(parties, 1, Min(4, Len(parties)))

\* return line_items[:10]; a match is (description, quantity, unit price, total)
extract_line_items(text) ==
  LET line_items ==
        [i \in 1..Len(text.lines) |->
           [description |-> Strip(text.lines[i][1]),
            quantity |-> text.lines[i][2],
            unit_price |-> << "$", text.lines[i][3] >>,
            total |-> << "$", text.lines[i][4] >>]]
  IN  SubSeq(line_items, 1, Min(10, Len(line_items)))

\* ----------------------------------------------------------- _extract_currency
\* text.tokens: the alternatives of the three searches that occur in the text
\* (re.search with re.IGNORECASE)
HasAny(text, tokens) == text.tokens \cap tokens # {}

\* the euro search made first
extract_currency_eur_first(text) ==
  IF HasAny(text, {"€", "EUR", "Euro"}) THEN "EUR"
  ELSE IF HasAny(text, {"$", "USD", "US Dollar"}) THEN "USD"
  ELSE IF HasAny(text, {"£", "GBP", "British Pound"}) THEN "GBP"
  ELSE None

extract_currency(text) ==
  IF HasAny(text, {"$", "USD", "US Dollar"}) THEN "USD"
  ELSE IF HasAny(text, {"€", "EUR", "Euro"}) THEN "EUR"
  ELSE IF HasAny(text, {"£", "GBP", "British Pound"}) THEN "GBP"
  ELSE None

\* ------------------------------------------------------------- extract_data
\* Here a text is given by what the searches of each method find in it: a
\* string per single-valued field ("" when no pattern has a value) and a list
\* for the parties, the line items, the e-mail addresses and the phone numbers
ConfidenceKey ==
  [total_value |-> "total_value_confidence", terms |-> "terms_confidence",
   schedule |-> "schedule_confidence", method |-> "method_confidence",
   response_time |-> "response_time_confidence",
   uptime_guarantee |-> "uptime_confidence", penalties |-> "penalties_confidence"]

\* if result["value"]: section[key] = ...; section[key + "_confidence"] = ...
FoundFields(text, keys) ==
  LET found == { k \in keys : text[k] # "" }
  IN  [k \in found \cup { ConfidenceKey[f] : f \in found } |->
         IF k \in found THEN text[k] ELSE text.confidence]

\* _extract_parties: name, role, legal_entity and confidence of each party
parties_of(text) ==
  [i \in 1..Min(4, Len(text.parties)) |->
     [name |-> text.parties[i].name, role |-> "Party",
      legal_entity |-> text.parties[i].legal_entity, confidence |-> text.confidence]]

extract_financial_details(text) ==
  Merge(Merge(Merge(FoundFields(text, {"total_value"}),
                    IF text.currency # None
                    THEN [currency |-> text.currency] ELSE EmptyDict),
              IF Len(text.line_items) > 0
              THEN [line_items |-> text.line_items] ELSE EmptyDict),
        IF text.tax_rate # ""
        THEN [tax_information |-> [rate |-> text.tax_rate, confidence |-> text.confidence]]
        ELSE EmptyDict)

\* the contact information with the first address taken as billing contact
extract_contact_information_billing(text) ==
  Merge(IF Len(text.emails) > 0
        THEN [emails |-> text.emails, billing_contact |-> text.emails[1]]
        ELSE EmptyDict,
        IF Len(text.phones) > 0 THEN [phones |-> text.phones] ELSE EmptyDict)

extract_contact_information(text) ==
  Merge(IF Len(text.emails) > 0 THEN [emails |-> text.emails] ELSE EmptyDict,
        IF Len(text.phones) > 0 THEN [phones |-> text.phones] ELSE EmptyDict)

\* ContractExtractor.extract_data once the text has passed the length test
extract_data(text) ==
  [parties |-> parties_of(text),
   financial_details |-> extract_financial_details(text),
   payment_structure |-> FoundFields(text, {"terms", "schedule", "method"}),
   sla_terms |-> FoundFields(text, {"response_time", "uptime_guarantee", "penalties"}),
   contact_information |-> extract_contact_information(text),
   account_information |-> EmptyDict,
   revenue_classification |-> [type |-> "One-time"],
   raw_text_length |-> text.length,
   extraction_metadata |-> [total_pages |-> 1,
                            extraction_method |-> "pdfplumber + regex",
                            text_length |-> text.length]]

\* ------------------------------------------------ records the extractor returns
\* ContractExtractor.extract_data: every section key is present; a section's
\* keys are present only for the fields that were found
SampleRich ==
  [parties |-> << [name |-> "TechCorp Solutions Inc.", role |-> "Client",
                   legal_entity |-> "Inc.", confidence |-> 95],
                  [name |-> "Acme Services", role |-> "Service Provider",
                   legal_entity |-> None, confidence |-> 90] >>,
   financial_details |-> [total_value |-> "$150,000", total_value_confidence |-> 90,
                          currency |-> "USD"],
   payment_structure |-> [terms |-> "Net 30", terms_confidence |-> 90],
   sla_terms |-> [response_time |-> "4 hours", response_time_confidence |-> 95,
                  uptime_guarantee |-> "99.9%", uptime_confidence |-> 90],
   contact_information |-> [emails |-> << "billing@techcorp.com" >>],
   account_information |-> EmptyDict,
   revenue_classification |-> [type |-> "One-time"]]

SampleBare ==
  [parties |-> << >>,
   financial_details |-> EmptyDict,
   payment_structure |-> EmptyDict,
   sla_terms |-> EmptyDict,
   contact_information |-> EmptyDict,
   account_information |-> EmptyDict,
   revenue_classification |-> [type |-> "One-time"]]

Samples == << SampleRich, SampleBare >>

\* ------------------------------------------------------------ document store
\* upload_contract: the record inserted before parse_contract.delay(id)
NewContract(id, file) ==
  [contract_id |-> id, filename |-> file, file_size |-> 1, status |-> "pending",
   progress |-> 0, original_file |-> file, upload_date |-> 0, created_at |-> 0,
   updated_at |-> 0]

Files == << "rich.pdf", "bare.pdf", "padded.pdf", "short.pdf", "empty.pdf" >>

\* _extract_text_from_pdf(file_bytes): the text of each file, by its length and
\* the number of blank characters at its two ends
FileText(file) ==
  CASE file = "rich.pdf" -> [len |-> 760, blank |-> 18]
    [] file = "bare.pdf" -> [len |-> 100, blank |-> 0]
    [] file = "padded.pdf" -> [len |-> 101, blank |-> 2]
    [] file = "short.pdf" -> [len |-> 10, blank |-> 0]
    [] OTHER -> [len |-> 0, blank |-> 0]

\* the length test made on the text as extracted
InsufficientTextUnstripped(text) == text.len < 100

\* not text or len(text.strip()) < 100
InsufficientText(text) == text.len = 0 \/ text.len - text.blank < 100

\* update_one with upsert=True
update_upsert(st, id, upd) ==
  [d \in DOMAIN st \cup {id} |->
     IF d = id
     THEN IF id \in DOMAIN st THEN Merge(st[id], upd) ELSE Merge([contract_id |-> id], upd)
     ELSE st[d]]

\* an update whose filter matches every document
update_many(st, id, upd) == [d \in DOMAIN st |-> Merge(st[d], upd)]

\* contracts.update_one({"contract_id": id}, {"$set": upd}): no upsert
update_one(st, id, upd) ==
  IF id \in DOMAIN st THEN [st EXCEPT ![id] = Merge(st[id], upd)] ELSE st

\* the first write without the status
ProcessingUpdateNoStatus(t) == [progress |-> 10, updated_at |-> t]

\* ------------------------------------------------------------ parse_contract
ProcessingUpdate(t) == [status |-> "processing", progress |-> 10, updated_at |-> t]

\* a checkpoint write that keeps the value of the write it was copied from
ProgressUpdateStale(p, t) == [progress |-> 30, updated_at |-> t]

ProgressUpdate(p, t) == [progress |-> p, updated_at |-> t]

\* the completing write that also resets the error
CompletedUpdateClearsError(data, sc, gp, conf, t) ==
  [status |-> "completed", progress |-> 100, extracted_data |-> data, score |-> sc,
   gaps |-> gp, confidence_scores |-> conf, processing_completed_at |-> t,
   updated_at |-> t, error |-> << >>]

\* the completing write without the status
CompletedUpdateNoStatus(data, sc, gp, conf, t) ==
  [progress |-> 100, extracted_data |-> data, score |-> sc, gaps |-> gp,
   confidence_scores |-> conf, processing_completed_at |-> t, updated_at |-> t]

CompletedUpdate(data, sc, gp, conf, t) ==
  [status |-> "completed", progress |-> 100, extracted_data |-> data, score |-> sc,
   gaps |-> gp, confidence_scores |-> conf, processing_completed_at |-> t,
   updated_at |-> t]

\* the handler's write without the progress reset
FailedUpdateKeepsProgress(msg, t) ==
  [status |-> "failed", error |-> msg, updated_at |-> t]

\* the handler's write without the status
FailedUpdateNoStatus(msg, t) == [progress |-> 0, error |-> msg, updated_at |-> t]

FailedUpdate(msg, t) ==
  [status |-> "failed", progress |-> 0, error |-> msg, updated_at |-> t]

\* the final write without the prefix
MaxRetriesUpdateNoPrefix(msg, t) ==
  [status |-> "failed", error |-> msg, updated_at |-> t]

MaxRetriesUpdate(msg, t) ==
  [status |-> "failed", error |-> << "Max retries exceeded: " >> \o msg, updated_at |-> t]

\* the test that gives up one failure earlier
ShouldRetryOnceLess(r) == r < max_retries - 1

\* self.request.retries < self.max_retries
ShouldRetry(r) == r < max_retries

NotFoundMsg(id) == << "Contract ", id, " not found in database" >>
InsufficientMsg ==
  << "Failed to extract contract data: ", "PDF contains insufficient text content" >>
ExtractionMsgs ==
  { InsufficientMsg, << "Failed to extract contract data: ", "No /Root object" >> }
StoreMsg == << "store operation failed" >>

\* extractor.extract_data(contract_doc["original_file"]) when it returns
ExtractResult(file) == IF file = Files[1] THEN Samples[1] ELSE Samples[2]

NoResult == [kind |-> "none", info |-> ""]
NewAttempt == [progress |-> << >>, extraction |-> "none", scoring |-> "none",
               store_fault |-> FALSE]

VARIABLES
  store,          \* the contracts collection: contract_id -> document
  now,            \* get_current_timestamp()
  pc,             \* each invocation's position in parse_contract
  retries,        \* self.request.retries
  contract_id,    \* the argument of each invocation
  contract_doc,   \* local: the document read by find_one
  extracted_data, \* local
  score,          \* local
  gaps,           \* local
  error_msg,      \* local: str(e) of the exception being handled
  result,         \* how the invocation ended: a return value or a raised exception
  attempt,        \* history of the current run of the body
  ext_log,        \* history: the outcome of the extraction call of each run
  other_fault,    \* history: some failure other than an extraction failure occurred
  runs,           \* history: how many times the body was started
  fn,             \* the function applied to arg ("" before the call)
  arg,            \* the argument of a call of a pure function
  ret             \* its result: << >> before the call, << value >> after it

vars == << store, now, pc, retries, contract_id, contract_doc, extracted_data,
           score, gaps, error_msg, result, attempt, ext_log, other_fault, runs,
           fn, arg, ret >>

call == << fn, arg, ret >>

pipeline == << store, now, pc, retries, contract_id, contract_doc, extracted_data,
               score, gaps, error_msg, result, attempt, ext_log, other_fault, runs >>

locals == << contract_doc, extracted_data, score, gaps >>

Goto(w, label) == pc' = [pc EXCEPT ![w] = label]

\* an exception reaches the handler "except Exception as e"
Raise(w, msg) ==
  /\ Goto(w, "except")
  /\ error_msg' = [error_msg EXCEPT ![w] = msg]

\* a store write by invocation w that succeeds
Write(w, upd) ==
  /\ store' = update_one(store, contract_id[w], upd)
  /\ now' = now + 1

\* the history of the attempt after a checkpoint write that the store applied
Logged(w, upd) ==
  IF contract_id[w] \in DOMAIN store /\ "progress" \in DOMAIN upd
  THEN [attempt EXCEPT ![w].progress = Append(@, upd["progress"])]
  ELSE attempt

StoreFault(w) ==
  /\ attempt' = [attempt EXCEPT ![w].store_fault = TRUE]
  /\ other_fault' = [other_fault EXCEPT ![w] = TRUE]

\* lines 60-68: the worker starts the body and looks the document up
FindContract(w) ==
  /\ pc[w] = "queued"
  /\ UNCHANGED call
  /\ runs' = [runs EXCEPT ![w] = @ + 1]
  /\ \/ /\ contract_id[w] \in DOMAIN store
        /\ contract_doc' = [contract_doc EXCEPT ![w] = store[contract_id[w]]]
        /\ Goto(w, "set_processing")
        /\ UNCHANGED << error_msg, attempt, other_fault >>
     \/ /\ contract_id[w] \notin DOMAIN store
        /\ Raise(w, NotFoundMsg(contract_id[w]))
        /\ other_fault' = [other_fault EXCEPT ![w] = TRUE]
        /\ UNCHANGED << contract_doc, attempt >>
     \/ /\ Raise(w, StoreMsg)
        /\ StoreFault(w)
        /\ UNCHANGED contract_doc
  /\ UNCHANGED << store, now, retries, contract_id, extracted_data, score, gaps,
                  result, ext_log >>

\* the first write made only when the document is not completed
SetProcessingUnlessCompleted(w) ==
  /\ pc[w] = "set_processing"
  /\ UNCHANGED call
  /\ \/ /\ IF /\ contract_id[w] \in DOMAIN store
              /\ store[contract_id[w]]["status"] = "completed"
           THEN UNCHANGED << store, now, attempt >>
           ELSE Write(w, ProcessingUpdate(now)) /\ attempt' = Logged(w, ProcessingUpdate(now))
        /\ Goto(w, "progress30")
        /\ UNCHANGED << error_msg, other_fault >>
     \/ /\ Raise(w, StoreMsg)
        /\ StoreFault(w)
        /\ UNCHANGED << store, now >>
  /\ UNCHANGED << retries, contract_id, locals, result, ext_log, runs >>

\* lines 70-80
SetProcessing(w) ==
  /\ pc[w] = "set_processing"
  /\ UNCHANGED call
  /\ \/ /\ Write(w, ProcessingUpdate(now))
        /\ attempt' = Logged(w, ProcessingUpdate(now))
        /\ Goto(w, "progress30")
        /\ UNCHANGED << error_msg, other_fault >>
     \/ /\ Raise(w, StoreMsg)
        /\ StoreFault(w)
        /\ UNCHANGED << store, now >>
  /\ UNCHANGED << retries, contract_id, locals, result, ext_log, runs >>

\* lines 86-90
Progress30(w) ==
  /\ pc[w] = "progress30"
  /\ UNCHANGED call
  /\ \/ /\ Write(w, ProgressUpdate(30, now))
        /\ attempt' = Logged(w, ProgressUpdate(30, now))
        /\ Goto(w, "extract")
        /\ UNCHANGED << error_msg, other_fault >>
     \/ /\ Raise(w, StoreMsg)
        /\ StoreFault(w)
        /\ UNCHANGED << store, now >>
  /\ UNCHANGED << retries, contract_id, locals, result, ext_log, runs >>

\* lines 92-93 and 101-103: extract_data returns the record, raises for a text
\* that is too short, or raises for a file that cannot be read
Extract(w) ==
  /\ pc[w] = "extract"
  /\ UNCHANGED call
  /\ \/ /\ ~InsufficientText(FileText(contract_doc[w]["original_file"]))
        /\ extracted_data' = [extracted_data EXCEPT
                                ![w] = ExtractResult(contract_doc[w]["original_file"])]
        /\ attempt' = [attempt EXCEPT ![w].extraction = "ok"]
        /\ ext_log' = [ext_log EXCEPT ![w] = Append(@, "ok")]
        /\ Goto(w, "progress60")
        /\ UNCHANGED error_msg
     \/ /\ \/ /\ InsufficientText(FileText(contract_doc[w]["original_file"]))
              /\ Raise(w, InsufficientMsg)
           \/ \E msg \in ExtractionMsgs \ {InsufficientMsg} : Raise(w, msg)
        /\ attempt' = [attempt EXCEPT ![w].extraction = "failed"]
        /\ ext_log' = [ext_log EXCEPT ![w] = Append(@, "failed")]
        /\ UNCHANGED extracted_data
  /\ UNCHANGED << store, now, retries, contract_id, contract_doc, score, gaps,
                  result, other_fault, runs >>

\* lines 95-99
Progress60(w) ==
  /\ pc[w] = "progress60"
  /\ UNCHANGED call
  /\ \/ /\ Write(w, ProgressUpdate(60, now))
        /\ attempt' = Logged(w, ProgressUpdate(60, now))
        /\ Goto(w, "scoring")
        /\ UNCHANGED << error_msg, other_fault >>
     \/ /\ Raise(w, StoreMsg)
        /\ StoreFault(w)
        /\ UNCHANGED << store, now >>
  /\ UNCHANGED << retries, contract_id, locals, result, ext_log, runs >>

\* the scoring block without its handler: the exception reaches the outer one
ScoringFailedUnhandled(w) ==
  /\ UNCHANGED << score, gaps >>
  /\ attempt' = [attempt EXCEPT ![w].scoring = "failed"]
  /\ other_fault' = [other_fault EXCEPT ![w] = TRUE]
  /\ Goto(w, "except")

\* lines 118-121: "except Exception" of the scoring block
ScoringFailed(w) ==
  /\ score' = [score EXCEPT ![w] = 0]
  /\ gaps' = [gaps EXCEPT ![w] = << >>]
  /\ attempt' = [attempt EXCEPT ![w].scoring = "failed"]
  /\ other_fault' = [other_fault EXCEPT ![w] = TRUE]
  /\ Goto(w, "complete")

\* lines 106-110
Scoring(w) ==
  /\ pc[w] = "scoring"
  /\ UNCHANGED call
  /\ \/ /\ score' = [score EXCEPT ![w] = calculate_score(extracted_data[w])]
        /\ gaps' = [gaps EXCEPT ![w] = identify_gaps(extracted_data[w])]
        /\ Goto(w, "progress80")
        /\ UNCHANGED << attempt, other_fault >>
     \/ ScoringFailed(w)
  /\ UNCHANGED << store, now, retries, contract_id, contract_doc, extracted_data,
                  error_msg, result, ext_log, runs >>

\* the progress-80 write placed after the scoring try block: its failure
\* reaches the outer handler
Progress80Unguarded(w) ==
  /\ pc[w] = "progress80"
  /\ UNCHANGED call
  /\ \/ /\ Write(w, ProgressUpdate(80, now))
        /\ attempt' = [Logged(w, ProgressUpdate(80, now)) EXCEPT ![w].scoring = "ok"]
        /\ Goto(w, "complete")
        /\ UNCHANGED << error_msg, other_fault >>
     \/ /\ Raise(w, StoreMsg)
        /\ StoreFault(w)
        /\ UNCHANGED << store, now >>
  /\ UNCHANGED << retries, contract_id, locals, result, ext_log, runs >>

\* lines 112-116, inside the scoring try block
Progress80(w) ==
  /\ pc[w] = "progress80"
  /\ UNCHANGED call
  /\ \/ /\ Write(w, ProgressUpdate(80, now))
        /\ attempt' = [Logged(w, ProgressUpdate(80, now)) EXCEPT ![w].scoring = "ok"]
        /\ Goto(w, "complete")
        /\ UNCHANGED << score, gaps, other_fault >>
     \/ /\ ScoringFailed(w)
        /\ UNCHANGED << store, now >>
  /\ UNCHANGED << retries, contract_id, contract_doc, extracted_data, error_msg,
                  result, ext_log, runs >>

\* lines 123-151
Complete(w) ==
  /\ pc[w] = "complete"
  /\ UNCHANGED call
  /\ \/ /\ Write(w, CompletedUpdate(extracted_data[w], score[w], gaps[w],
                      calculate_section_confidence(extracted_data[w]), now))
        /\ attempt' = Logged(w, CompletedUpdate(extracted_data[w], score[w], gaps[w],
                               calculate_section_confidence(extracted_data[w]), now))
        /\ result' = [result EXCEPT ![w] = [kind |-> "return", info |-> "completed"]]
        /\ Goto(w, "returned")
        /\ UNCHANGED << error_msg, other_fault >>
     \/ /\ Raise(w, StoreMsg)
        /\ StoreFault(w)
        /\ UNCHANGED << store, now, result >>
  /\ UNCHANGED << retries, contract_id, locals, ext_log, runs >>

\* lines 153-168: the handler persists the failure; an exception raised by
\* this write leaves the task
HandleFailure(w) ==
  /\ pc[w] = "except"
  /\ UNCHANGED call
  /\ \/ /\ Write(w, FailedUpdate(error_msg[w], now))
        /\ Goto(w, "retry_check")
        /\ UNCHANGED << result, attempt, other_fault >>
     \/ /\ result' = [result EXCEPT ![w] = [kind |-> "raise", info |-> "StoreError"]]
        /\ Goto(w, "raised")
        /\ StoreFault(w)
        /\ UNCHANGED << store, now >>
  /\ UNCHANGED << retries, contract_id, locals, error_msg, ext_log, runs >>

\* lines 170-173: raise self.retry(countdown=..., exc=e)
RetryCheck(w) ==
  /\ pc[w] = "retry_check"
  /\ UNCHANGED call
  /\ \/ /\ ShouldRetry(retries[w])
        /\ result' = [result EXCEPT ![w] = [kind |-> "raise", info |-> "Retry"]]
        /\ Goto(w, "retry_wait")
     \/ /\ ~ShouldRetry(retries[w])
        /\ Goto(w, "max_retries")
        /\ UNCHANGED result
  /\ UNCHANGED << store, now, retries, contract_id, locals, error_msg, attempt,
                  ext_log, other_fault, runs >>

\* lines 175-187
MaxRetriesExceeded(w) ==
  /\ pc[w] = "max_retries"
  /\ UNCHANGED call
  /\ \/ /\ Write(w, MaxRetriesUpdate(error_msg[w], now))
        /\ result' = [result EXCEPT ![w] = [kind |-> "raise", info |-> "ProcessingError"]]
        /\ UNCHANGED << attempt, other_fault >>
     \/ /\ result' = [result EXCEPT ![w] = [kind |-> "raise", info |-> "StoreError"]]
        /\ StoreFault(w)
        /\ UNCHANGED << store, now >>
  /\ Goto(w, "raised")
  /\ UNCHANGED << retries, contract_id, locals, error_msg, ext_log, runs >>

\* the retry message delivered while the handler has not yet written
RetryDeliveredEarly(w) ==
  /\ pc[w] = "except"
  /\ ShouldRetry(retries[w])
  /\ UNCHANGED call
  /\ retries' = [retries EXCEPT ![w] = @ + 1]
  /\ result' = [result EXCEPT ![w] = NoResult]
  /\ attempt' = [attempt EXCEPT ![w] = NewAttempt]
  /\ Goto(w, "queued")
  /\ UNCHANGED << store, now, contract_id, locals, error_msg, ext_log, other_fault,
                  runs >>

\* the retry message is delivered after the countdown: the body runs again
\* from the top with request.retries + 1
RetryDelivered(w) ==
  /\ pc[w] = "retry_wait"
  /\ UNCHANGED call
  /\ retries' = [retries EXCEPT ![w] = @ + 1]
  /\ result' = [result EXCEPT ![w] = NoResult]
  /\ attempt' = [attempt EXCEPT ![w] = NewAttempt]
  /\ Goto(w, "queued")
  /\ UNCHANGED << store, now, contract_id, locals, error_msg, ext_log, other_fault,
                  runs >>

\* upload_contract has inserted the record and enqueued one invocation for
\* "c1"; the record of "c1" may have been deleted before the worker starts
Init ==
  /\ \E f \in 1..Len(Files) :
       \E present \in BOOLEAN :
         store = [id \in (IF present THEN {"c1", "c2"} ELSE {"c2"}) |->
                    NewContract(id, Files[f])]
  /\ now = 1
  /\ pc = [w \in Invocations |-> IF w = 1 THEN "queued" ELSE "none"]
  /\ retries = [w \in Invocations |-> 0]
  /\ contract_id = [w \in Invocations |-> "c1"]
  /\ contract_doc = [w \in Invocations |-> EmptyDict]
  /\ extracted_data = [w \in Invocations |-> EmptyDict]
  /\ score = [w \in Invocations |-> 0]
  /\ gaps = [w \in Invocations |-> << >>]
  /\ error_msg = [w \in Invocations |-> << >>]
  /\ result = [w \in Invocations |-> NoResult]
  /\ attempt = [w \in Invocations |-> NewAttempt]
  /\ ext_log = [w \in Invocations |-> << >>]
  /\ other_fault = [w \in Invocations |-> FALSE]
  /\ runs = [w \in Invocations |-> 0]
  /\ fn = "" /\ arg = EmptyDict /\ ret = << >>

Next ==
  \E w \in Invocations :
    \/ FindContract(w)
    \/ SetProcessing(w)
    \/ Progress30(w)
    \/ Extract(w)
    \/ Progress60(w)
    \/ Scoring(w)
    \/ Progress80(w)
    \/ Complete(w)
    \/ HandleFailure(w)
    \/ RetryCheck(w)
    \/ MaxRetriesExceeded(w)
    \/ RetryDelivered(w)

Spec == Init /\ [][Next]_vars

FairSpec == Spec /\ WF_vars(Next)

\* ------------------------------------------------ a document deleted meanwhile
\* routers.py delete_contract: delete_one removes the record; when there is
\* none (deleted_count = 0) the request ends in 404 and changes nothing
DeleteContract(id) ==
  /\ id \in DOMAIN store
  /\ store' = [d \in DOMAIN store \ {id} |-> store[d]]
  /\ UNCHANGED << now, pc, retries, contract_id, contract_doc, extracted_data, score,
                  gaps, error_msg, result, attempt, ext_log, other_fault, runs, call >>

NextDelete == Next \/ \E id \in ContractIds : DeleteContract(id)

SpecDelete == Init /\ [][NextDelete]_vars

\* ------------------------------------------------ two invocations in flight
\* an extraction failure that does not depend on the file's text
TransientMsg == << "Failed to extract contract data: ", "No /Root object" >>

\* Two invocations are in flight, for two documents or (duplicate dispatch) for
\* the same one, each with three failed runs behind it: the last retry of
\* invocation 1 is scheduled, that of invocation 2 has been delivered
InitTwo ==
  /\ \E other \in ContractIds :
       contract_id = [w \in Invocations |-> IF w = 1 THEN "c1" ELSE other]
  /\ store = [id \in ContractIds |->
                Merge(NewContract(id, Files[1]), FailedUpdate(TransientMsg, 1))]
  /\ now = 2
  /\ pc = [w \in Invocations |-> IF w = 1 THEN "retry_wait" ELSE "queued"]
  /\ retries = [w \in Invocations |-> IF w = 1 THEN max_retries - 1 ELSE max_retries]
  /\ contract_doc = [w \in Invocations |-> EmptyDict]
  /\ extracted_data = [w \in Invocations |-> EmptyDict]
  /\ score = [w \in Invocations |-> 0]
  /\ gaps = [w \in Invocations |-> << >>]
  /\ error_msg = [w \in Invocations |-> TransientMsg]
  /\ result = [w \in Invocations |->
                 IF w = 1 THEN [kind |-> "raise", info |-> "Retry"] ELSE NoResult]
  /\ attempt = [w \in Invocations |->
                  IF w = 1 THEN [NewAttempt EXCEPT !.progress = << 10, 30 >>,
                                                   !.extraction = "failed"]
                  ELSE NewAttempt]
  /\ ext_log = [w \in Invocations |-> [i \in 1..max_retries |-> "failed"]]
  /\ other_fault = [w \in Invocations |-> FALSE]
  /\ runs = [w \in Invocations |-> max_retries]
  /\ fn = "" /\ arg = EmptyDict /\ ret = << >>

SpecTwo == InitTwo /\ [][Next]_vars

\* ------------------------------------------------- calls of the pure functions
\* One field of a dict, from a choice: 0 the key is absent, 1 the key is
\* present with a falsy value, 2 the key is present with a truthy value
Field(key, c, falsy, truthy) ==
  IF c = 0 THEN EmptyDict ELSE [k \in {key} |-> IF c = 1 THEN falsy ELSE truthy]

Section(key, present, dict) ==
  IF present THEN [k \in {key} |-> dict] ELSE EmptyDict

FieldChoices == {0, 1, 2}

\* the dicts tried for a section: absent, or present with each field absent or
\* truthy, or present with its first field falsy and nothing else
SectionChoices(n) ==
  { c \in [present : BOOLEAN, f : [1..n -> FieldChoices]] :
      /\ ~c.present => \A i \in 1..n : c.f[i] = 0
      /\ \A i \in 1..n : c.f[i] = 1 => i = 1 /\ \A j \in 2..n : c.f[j] = 0 }

FinancialOf(c) ==
  Section("financial_details", c.present,
    Merge(Merge(Merge(Field("total_value", c.f[1], "", "$150,000"),
                      Field("line_items", c.f[2], << >>, << [description |-> "Service"] >>)),
                Field("currency", c.f[3], "", "USD")),
          Field("tax_information", c.f[4], EmptyDict, [rate |-> "10%"])))

PaymentOf(c) ==
  Section("payment_structure", c.present,
    Merge(Merge(Field("terms", c.f[1], "", "Net 30"),
                Field("schedule", c.f[2], "", "Monthly")),
          Field("method", c.f[3], "", "Wire Transfer")))

SlaOf(c) ==
  Section("sla_terms", c.present,
    Merge(Merge(Field("response_time", c.f[1], "", "4 hours"),
                Field("uptime_guarantee", c.f[2], "", "99.9%")),
          Field("penalties", c.f[3], "", "5% credit")))

ContactOf(c) ==
  Section("contact_information", c.present,
    Merge(Field("billing_contact", c.f[1], "", "billing@company.com"),
          Field("technical_contact", c.f[2], "", "support@company.com")))

\* a party: legal_entity is None or a suffix, authorized_signatory absent or set
PartyOf(c) ==
  Merge([name |-> "Company", legal_entity |-> IF c[1] THEN "Inc." ELSE None],
        Field("authorized_signatory", IF c[2] THEN 2 ELSE 0, "", "John Doe"))

PartiesChoices ==
  { c \in [present : BOOLEAN, n : 0..MaxParties,
           p : [1..MaxParties -> BOOLEAN \X BOOLEAN]] :
      /\ ~c.present => c.n = 0
      /\ \A i \in 1..MaxParties : i > c.n => c.p[i] = << FALSE, FALSE >> }

PartiesOf(c) ==
  Section("parties", c.present, [i \in 1..c.n |-> PartyOf(c.p[i])])

InitCall ==
  \E cf \in SectionChoices(4), cp \in PartiesChoices, cy \in SectionChoices(3),
     cs \in SectionChoices(3), cc \in SectionChoices(2) :
    arg = Merge(Merge(Merge(Merge(FinancialOf(cf), PartiesOf(cp)), PaymentOf(cy)),
                      SlaOf(cs)), ContactOf(cc))

\* no pipeline runs while a pure function is exercised
Idle ==
  /\ store = [id \in ContractIds |-> NewContract(id, Files[1])]
  /\ now = 1
  /\ pc = [w \in Invocations |-> "none"]
  /\ retries = [w \in Invocations |-> 0]
  /\ contract_id = [w \in Invocations |-> "c1"]
  /\ contract_doc = [w \in Invocations |-> EmptyDict]
  /\ extracted_data = [w \in Invocations |-> EmptyDict]
  /\ score = [w \in Invocations |-> 0]
  /\ gaps = [w \in Invocations |-> << >>]
  /\ error_msg = [w \in Invocations |-> << >>]
  /\ result = [w \in Invocations |-> NoResult]
  /\ attempt = [w \in Invocations |-> NewAttempt]
  /\ ext_log = [w \in Invocations |-> << >>]
  /\ other_fault = [w \in Invocations |-> FALSE]
  /\ runs = [w \in Invocations |-> 0]

CallCalculateScore ==
  /\ fn = ""
  /\ fn' = "calculate_score"
  /\ ret' = << calculate_score(arg) >>
  /\ UNCHANGED << arg, pipeline >>

InitScore == Idle /\ fn = "" /\ ret = << >> /\ InitCall

NextScore == CallCalculateScore

SpecScore == InitScore /\ [][NextScore]_vars

CallIdentifyGaps ==
  /\ fn = ""
  /\ fn' = "identify_gaps"
  /\ ret' = << identify_gaps(arg) >>
  /\ UNCHANGED << arg, pipeline >>

InitGaps == Idle /\ fn = "" /\ ret = << >> /\ InitCall

NextGaps == CallIdentifyGaps

SpecGaps == InitGaps /\ [][NextGaps]_vars

\* ------------------------------------------------ extract_confidence_score
\* texts are laid out in slots of Unit characters: a matched string of HitLen
\* characters or a field name of NameLen characters starts a slot, a newline
\* ends one
Unit == 10
HitLen == 6
NameLen == 7
Slots == {k * Unit : k \in 0..MaxSlot}
TextLen == (MaxSlot + 1) * Unit

Scan(matches, hits, at, breaks, names) ==
  [matches |-> matches, hits |-> hits, at |-> at, breaks |-> breaks, names |-> names,
   hit_len |-> HitLen, name_len |-> NameLen, len |-> TextLen]

InitMatch ==
  /\ Idle /\ fn = "" /\ ret = << >>
  /\ \E n \in 0..MaxMatches :
       IF n = 1
       THEN \E a \in Slots, b \in Slots \cup {-1} :
              /\ b = -1 \/ a < b
              /\ \E at \in 1..(IF b = -1 THEN 1 ELSE 2) :
                 \E breaks \in {{}} \cup {{c} : c \in Slots \ {0}} :
                   \E names \in {{}} \cup {{f} : f \in Slots \ {a, b}} :
                     arg = Scan(<< "50,000" >>,
                                IF b = -1 THEN << a >> ELSE << a, b >>, at, breaks, names)
       ELSE arg = Scan([i \in 1..n |-> "50,000"], [i \in 1..n |-> (i - 1) * Unit], 1, {}, {})

CallExtractConfidenceScore ==
  /\ fn = ""
  /\ fn' = "extract_confidence_score"
  /\ ret' = << extract_confidence_score(arg) >>
  /\ UNCHANGED << arg, pipeline >>

NextMatch == CallExtractConfidenceScore

SpecMatch == InitMatch /\ [][NextMatch]_vars

\* ---------------------------------------------------- single-valued fields
\* what one pattern finds: nothing, one match without or with the field name
\* in its context, or two matches
ScanChoices == {<< 0, FALSE >>, << 1, FALSE >>, << 1, TRUE >>, << 2, FALSE >>}

\* the scan of the pattern whose capture is the string v
ScanOf(c, v) ==
  Scan([i \in 1..c[1] |-> v], [i \in 1..c[1] |-> (4 + i) * Unit], 1, {},
       IF c[2] THEN {4 * Unit} ELSE {})

\* the string each pattern of each field captures
Captures ==
  [terms |-> << "30", "45", "60", "90" >>,
   schedule |-> << "Monthly in advance", "Quarterly payments" >>,
   method |-> << "Bank draft", "Wire Transfer" >>,
   response_time |-> << "4 hours", "2 hour" >>,
   uptime |-> << "99.9%", "99.5%" >>,
   penalties |-> << "5% credit", "10%" >>,
   account_number |-> << "ACC-123456", "CUST-789" >>]

ScansOf(cs, f) == [i \in 1..Len(Captures[f]) |-> ScanOf(cs[i], Captures[f][i])]

InitFields ==
  /\ Idle /\ fn = "" /\ ret = << >>
  /\ \/ \E t \in [1..4 -> ScanChoices], s, m \in [1..2 -> ScanChoices] :
          arg = [terms |-> ScansOf(t, "terms"),
                 schedule |-> ScansOf(s, "schedule"),
                 method |-> ScansOf(m, "method")]
     \/ \E r, u, q \in [1..2 -> ScanChoices] :
          arg = [response_time |-> ScansOf(r, "response_time"),
                 uptime |-> ScansOf(u, "uptime"),
                 penalties |-> ScansOf(q, "penalties")]
     \/ \E a \in [1..2 -> ScanChoices], address \in {"", "123 Main St"} :
          arg = [account_number |-> ScansOf(a, "account_number"), address |-> address]

CallExtractPaymentStructure ==
  /\ fn = "" /\ "terms" \in DOMAIN arg
  /\ fn' = "_extract_payment_structure"
  /\ ret' = << extract_payment_structure(arg), Evaluated(arg) >>
  /\ UNCHANGED << arg, pipeline >>

CallExtractSlaTerms ==
  /\ fn = "" /\ "uptime" \in DOMAIN arg
  /\ fn' = "_extract_sla_terms"
  /\ ret' = << extract_sla_terms(arg), Evaluated(arg) >>
  /\ UNCHANGED << arg, pipeline >>

CallExtractAccountInformation ==
  /\ fn = "" /\ "account_number" \in DOMAIN arg
  /\ fn' = "_extract_account_information"
  /\ ret' = << extract_account_information(arg), Evaluated(arg) >>
  /\ UNCHANGED << arg, pipeline >>

NextFields ==
  \/ CallExtractPaymentStructure
  \/ CallExtractSlaTerms
  \/ CallExtractAccountInformation

SpecFields == InitFields /\ [][NextFields]_vars

\* --------------------------------------------- parties and line items
\* the strings the party patterns capture in the texts tried: five names, one
\* of them also with trailing blanks, and a name of three characters
Candidates ==
  << << "TechCorp Solutions Inc." >>, << "Global Industries Ltd." >>,
     << "Acme Services LLC" >>, << "Beta Corp." >>, << "Gamma Company" >>,
     << "IBM" >>, << "TechCorp Solutions Inc.", " " >> >>

NameChars ==
  [c \in {"TechCorp Solutions Inc.", "Global Industries Ltd.", "Acme Services LLC",
          "Beta Corp.", "Gamma Company", "IBM", " "} |->
     CASE c = "TechCorp Solutions Inc." -> 23
       [] c = "Global Industries Ltd." -> 22
       [] c = "Acme Services LLC" -> 17
       [] c = "Beta Corp." -> 10
       [] c = "Gamma Company" -> 13
       [] c = "IBM" -> 3
       [] OTHER -> 2]

\* what the text says about a stripped name
PartyText(found) ==
  [found |-> found,
   chars |-> NameChars,
   role |-> [n \in {Strip(Candidates[i]) : i \in 1..Len(Candidates)} |->
               IF n = Candidates[2] THEN "Client"
               ELSE IF n = Candidates[1] THEN "Service Provider" ELSE "Party"],
   legal_entity |-> [n \in {Strip(Candidates[i]) : i \in 1..Len(Candidates)} |->
                       IF n = Candidates[1] THEN "Inc."
                       ELSE IF n = Candidates[6] THEN None ELSE "Company"],
   mentions |-> [n \in {Strip(Candidates[i]) : i \in 1..Len(Candidates)} |->
                   ScanOf(IF n = Candidates[1] THEN << 2, FALSE >> ELSE << 1, FALSE >>, n)]]

\* each pattern finds at most two strings
FoundChoices ==
  {<< >>} \cup {<< Candidates[i] >> : i \in 1..Len(Candidates)}
          \cup {<< Candidates[i], Candidates[j] >> : i, j \in 1..Len(Candidates)}

LineMatch(i) == << << "Service", " " >>, i, "2,500", "30,000" >>

InitParties ==
  /\ Idle /\ fn = "" /\ ret = << >>
  /\ \/ \E f1, f2, f3 \in FoundChoices : arg = PartyText(<< f1, f2, f3 >>)
     \/ \E n \in 0..MaxLines : arg = [lines |-> [i \in 1..n |-> LineMatch(i)]]

CallExtractParties ==
  /\ fn = "" /\ "found" \in DOMAIN arg
  /\ fn' = "_extract_parties"
  /\ ret' = << extract_parties(arg) >>
  /\ UNCHANGED << arg, pipeline >>

CallExtractLineItems ==
  /\ fn = "" /\ "lines" \in DOMAIN arg
  /\ fn' = "_extract_line_items"
  /\ ret' = << extract_line_items(arg) >>
  /\ UNCHANGED << arg, pipeline >>

NextParties == CallExtractParties \/ CallExtractLineItems

SpecParties == InitParties /\ [][NextParties]_vars

\* ------------------------------------------------------------------ currency
\* a text: the currency tokens in it and the symbol in front of the amount
\* that _extract_total_value finds ("" when it finds none or a bare amount)
InitCurrency ==
  /\ Idle /\ fn = "" /\ ret = << >>
  /\ \E tokens \in SUBSET {"$", "USD", "US Dollar", "€", "EUR", "Euro",
                             "£", "GBP", "British Pound"} :
       \E amount \in {""} \cup (tokens \cap {"$", "€", "£"}) :
         arg = [tokens |-> tokens, amount |-> amount]

CallExtractCurrency ==
  /\ fn = ""
  /\ fn' = "_extract_currency"
  /\ ret' = << extract_currency(arg) >>
  /\ UNCHANGED << arg, pipeline >>

NextCurrency == CallExtractCurrency

SpecCurrency == InitCurrency /\ [][NextCurrency]_vars

\* ------------------------------------------------ _calculate_section_confidence
\* the dicts tried for a section, by number: 0 the key is absent, 1 the empty
\* dict, 2 a value without a confidence, 3 and more with confidences
SectionSample(section, k) ==
  IF k = 0 THEN EmptyDict
  ELSE [s \in {section} |->
    CASE k = 1 -> EmptyDict
      [] section = "financial_details" ->
           CASE k = 2 -> [total_value |-> "$50,000"]
             [] k = 3 -> [total_value |-> "$50,000", total_value_confidence |-> 90]
             [] k = 4 -> [total_value |-> "$50,000", total_value_confidence |-> 90,
                          tax_information |-> [rate |-> "8.5%", confidence |-> 95]]
             [] OTHER -> [total_value |-> "$50,000", tax_information |-> [rate |-> "8.5%"]]
      [] section = "payment_structure" ->
           CASE k = 2 -> [terms |-> "Net 30"]
             [] k = 3 -> [terms |-> "Net 30", terms_confidence |-> 90]
             [] k = 4 -> [terms |-> "Net 30", terms_confidence |-> 90,
                          schedule |-> "Monthly", schedule_confidence |-> 95]
             [] OTHER -> [terms |-> "Net 30", terms_confidence |-> 90,
                          schedule |-> "Monthly", schedule_confidence |-> 95,
                          method |-> "Wire Transfer", method_confidence |-> 95]
      [] section = "sla_terms" ->
           CASE k = 2 -> [response_time |-> "4 hours"]
             [] k = 3 -> [response_time |-> "4 hours", response_time_confidence |-> 95]
             [] k = 4 -> [response_time |-> "4 hours", response_time_confidence |-> 95,
                          uptime_guarantee |-> "99.9%", uptime_confidence |-> 90]
             [] OTHER -> [response_time |-> "4 hours", response_time_confidence |-> 95,
                          uptime_guarantee |-> "99.9%", uptime_confidence |-> 90,
                          penalties |-> "5% credit", penalties_confidence |-> 90]
      [] OTHER ->
           CASE k = 2 -> [account_number |-> "ACC-2024-001"]
             [] OTHER -> [account_number |-> "ACC-2024-001", account_confidence |-> 90]]

\* a party with a recorded confidence c, or without one (c = 0)
PartySample(c) ==
  IF c = 0 THEN [name |-> "Test Company"] ELSE [name |-> "Test Company", confidence |-> c]

InitSections ==
  /\ Idle /\ fn = "" /\ ret = << >>
  /\ \E present \in BOOLEAN, n \in 0..MaxParties, c \in [1..MaxParties -> {0, 90, 95}],
        kf, ky, ks \in 0..5, ka \in 0..3 :
       /\ ~present => n = 0
       /\ \A i \in 1..MaxParties : i > n => c[i] = 0
       /\ arg = Merge(Merge(Merge(Merge(
                   Section("parties", present, [i \in 1..n |-> PartySample(c[i])]),
                   SectionSample("financial_details", kf)),
                   SectionSample("payment_structure", ky)),
                   SectionSample("sla_terms", ks)),
                   SectionSample("account_information", ka))

CallCalculateSectionConfidence ==
  /\ fn = ""
  /\ fn' = "_calculate_section_confidence"
  /\ ret' = << calculate_section_confidence(arg) >>
  /\ UNCHANGED << arg, pipeline >>

NextSections == CallCalculateSectionConfidence

SpecSections == InitSections /\ [][NextSections]_vars

\* ---- identify_gaps and calculate_score on the same record
\* every choice of parties, with each other section absent or fully populated
InitBoth ==
  /\ Idle /\ fn = "" /\ ret = << >>
  /\ \E cp \in PartiesChoices, full \in [1..4 -> BOOLEAN] :
       LET Choice(i, n) == [present |-> full[i], f |-> [j \in 1..n |-> IF full[i] THEN 2 ELSE 0]]
       IN  arg = Merge(Merge(Merge(Merge(FinancialOf(Choice(1, 4)), PartiesOf(cp)),
                                   PaymentOf(Choice(2, 3))),
                             SlaOf(Choice(3, 3))),
                       ContactOf(Choice(4, 2)))

\* celery.py lines 107-108
CallBoth ==
  /\ fn = ""
  /\ fn' = "calculate_score, identify_gaps"
  /\ ret' = << calculate_score(arg), identify_gaps(arg) >>
  /\ UNCHANGED << arg, pipeline >>

NextBoth == CallBoth

SpecBoth == InitBoth /\ [][NextBoth]_vars

\* ---- extract_data followed by calculate_score, as in parse_contract
\* what the searches can find in a text
TextFields ==
  {"total_value", "currency", "line_items", "tax_rate", "terms", "schedule",
   "method", "response_time", "uptime_guarantee", "penalties", "emails", "phones"}

TextOf(n, legal, has) ==
  [parties |-> [i \in 1..n |-> [name |-> "Company",
                                legal_entity |-> IF legal[i] THEN "Inc." ELSE None]],
   total_value |-> IF has["total_value"] THEN "$150,000" ELSE "",
   currency |-> IF has["currency"] THEN "USD" ELSE None,
   line_items |-> IF has["line_items"] THEN << [description |-> "Service"] >> ELSE << >>,
   tax_rate |-> IF has["tax_rate"] THEN "10%" ELSE "",
   terms |-> IF has["terms"] THEN "Net 30" ELSE "",
   schedule |-> IF has["schedule"] THEN "Monthly" ELSE "",
   method |-> IF has["method"] THEN "Wire Transfer" ELSE "",
   response_time |-> IF has["response_time"] THEN "4 hours" ELSE "",
   uptime_guarantee |-> IF has["uptime_guarantee"] THEN "99.9%" ELSE "",
   penalties |-> IF has["penalties"] THEN "5% credit" ELSE "",
   emails |-> IF has["emails"] THEN << "billing@company.com" >> ELSE << >>,
   phones |-> IF has["phones"] THEN << "(555) 123-4567" >> ELSE << >>,
   confidence |-> 90,
   length |-> 760]

InitExtract ==
  /\ Idle /\ fn = "" /\ ret = << >>
  /\ \E n \in 0..MaxParties, legal \in [1..MaxParties -> BOOLEAN],
        has \in [TextFields -> BOOLEAN] :
       /\ \A i \in 1..MaxParties : i > n => ~legal[i]
       /\ arg = TextOf(n, legal, has)

\* celery.py line 92
CallExtractData ==
  /\ fn = ""
  /\ fn' = "extract_data"
  /\ ret' = << extract_data(arg) >>
  /\ UNCHANGED << arg, pipeline >>

\* celery.py line 107, on the record line 92 returned
ScoreExtracted ==
  /\ fn = "extract_data"
  /\ fn' = "calculate_score"
  /\ arg' = ret[1]
  /\ ret' = << calculate_score(ret[1]) >>
  /\ UNCHANGED pipeline

NextExtract == CallExtractData \/ ScoreExtracted

SpecExtract == InitExtract /\ [][NextExtract]_vars

\* ======================================================================
\* Properties of the pipeline (under Spec and FairSpec)
\* ======================================================================
Exists(w) == contract_id[w] \in DOMAIN store
Doc(w) == store[contract_id[w]]
Terminated(w) == pc[w] \in {"returned", "raised"}
Last(s) == s[Len(s)]
IsPrefix(s, t) == Len(s) <= Len(t) /\ \A i \in 1..Len(s) : s[i] = t[i]
HasMaxRetriesPrefix(e) == Len(e) > 0 /\ e[1] = "Max retries exceeded: "

AllowedMoves ==
  { << "pending", "processing" >>, << "processing", "completed" >>,
    << "processing", "failed" >>, << "failed", "processing" >> }

StatusMove(id) == << store[id]["status"], store'[id]["status"] >>

StatusChanges(id) ==
  /\ id \in DOMAIN store
  /\ id \in DOMAIN store'
  /\ store[id]["status"] # store'[id]["status"]

\* C1 as stated: every change of the persisted status is pending->processing,
\* processing->completed, processing->failed or failed->processing
C1_OnlyFourMoves ==
  [][\A id \in ContractIds : StatusChanges(id) => StatusMove(id) \in AllowedMoves]_vars

\* C1 amended: every change of the persisted status is one of the four moves
\* or pending->failed, the latter only in the handler of an attempt in which a
\* store operation raised before any checkpoint was persisted
C1_MovesWithStoreFault ==
  [][\A id \in ContractIds :
       StatusChanges(id) =>
         \/ StatusMove(id) \in AllowedMoves
         \/ /\ StatusMove(id) = << "pending", "failed" >>
            /\ \E w \in Invocations :
                 /\ contract_id[w] = id
                 /\ pc[w] = "except"
                 /\ attempt[w].store_fault
                 /\ attempt[w].progress = << >>]_vars

\* a document that went from pending to failed: the first run of the body
\* persisted no checkpoint and the handler wrote failed
C1_Witness ==
  /\ Exists(1)
  /\ Doc(1)["status"] = "failed"
  /\ runs[1] = 1
  /\ attempt[1].progress = << >>
  /\ attempt[1].store_fault

C3_MissingDocumentNotRetried ==
  \A w \in Invocations :
    (error_msg[w] = NotFoundMsg(contract_id[w]) /\ pc[w] \in {"retry_wait", "raised", "queued"})
      => /\ pc[w] = "raised"
         /\ result[w] = [kind |-> "raise", info |-> "ProcessingError"]
         /\ runs[w] = 1

\* C4: when the invocation has ended, the last run's extraction succeeded and
\* nothing but extractions failed (in particular after failed, failed, ok), the
\* document is completed with progress 100; a run whose extraction succeeded
\* with nothing else failing only moves on towards the completing write
C4_SuccessAfterRetries ==
  \A w \in Invocations :
    (Exists(w) /\ ~other_fault[w]) =>
      /\ (Terminated(w) /\ ext_log[w] # << >> /\ Last(ext_log[w]) = "ok") =>
           /\ pc[w] = "returned"
           /\ Doc(w)["status"] = "completed"
           /\ Doc(w)["progress"] = 100
      /\ attempt[w].extraction = "ok" =>
           pc[w] \in {"progress60", "scoring", "progress80", "complete", "returned"}

\* extraction failed on runs 1 and 2 and succeeded on run 3
C4_Witness ==
  /\ pc[1] = "returned"
  /\ ext_log[1] = << "failed", "failed", "ok" >>
  /\ ~other_fault[1]
  /\ Doc(1)["status"] = "completed"
  /\ Doc(1)["progress"] = 100

\* C5: when the invocation has ended after extraction failed on every run and
\* nothing else failed, there were max_retries + 1 runs, no retry is pending,
\* and the document is failed with error "Max retries exceeded: " followed by
\* the last run's message; an error with that prefix is never in the store
\* before the last run's final write
C5_MaxRetriesExceeded ==
  \A w \in Invocations :
    (Exists(w) /\ pc[w] # "none") =>
      /\ (Terminated(w) /\ ~other_fault[w] /\ ext_log[w] # << >>
            /\ Last(ext_log[w]) = "failed") =>
           /\ pc[w] = "raised"
           /\ ext_log[w] = [i \in 1..(max_retries + 1) |-> "failed"]
           /\ error_msg[w] \in ExtractionMsgs
           /\ Doc(w)["status"] = "failed"
           /\ Doc(w)["error"] = << "Max retries exceeded: " >> \o error_msg[w]
      /\ ("error" \in DOMAIN Doc(w) /\ HasMaxRetriesPrefix(Doc(w)["error"])) =>
           pc[w] = "raised" /\ retries[w] = max_retries
      /\ pc[w] = "retry_wait" =>
           "error" \in DOMAIN Doc(w) /\ ~HasMaxRetriesPrefix(Doc(w)["error"])

\* extraction failed on all four runs
C5_Witness ==
  /\ pc[1] = "raised"
  /\ ext_log[1] = << "failed", "failed", "failed", "failed" >>
  /\ ~other_fault[1]
  /\ HasMaxRetriesPrefix(Doc(1)["error"])

\* C6: a run whose scoring step failed after a successful extraction carries
\* score 0 and no gaps, goes on to the completing write and, unless that write
\* itself raises, ends completed with progress 100, score 0 and empty gaps
\* persisted, without the handler being entered or a retry scheduled
C6_ScoringFailureRecovered ==
  \A w \in Invocations :
    (Exists(w) /\ attempt[w].scoring = "failed") =>
      /\ attempt[w].extraction = "ok"
      /\ score[w] = 0
      /\ gaps[w] = << >>
      /\ ~attempt[w].store_fault =>
           /\ pc[w] \in {"complete", "returned"}
           /\ result[w]["info"] # "Retry"
           /\ pc[w] = "returned" =>
                /\ Doc(w)["status"] = "completed"
                /\ Doc(w)["progress"] = 100
                /\ Doc(w)["score"] = 0
                /\ Doc(w)["gaps"] = << >>

\* the scoring step failed on a retried run, which completed
C6_Witness ==
  /\ pc[1] = "returned"
  /\ retries[1] = 1
  /\ attempt[1].scoring = "failed"
  /\ ~attempt[1].store_fault
  /\ Doc(1)["status"] = "completed"
  /\ Doc(1)["score"] = 0

\* C7: from the handler's write until the retry is delivered the document
\* reads failed with the run's error message and progress 0, a retry is
\* pending only with fewer than max_retries retries so far, and a retried run
\* starts from the top: it has persisted nothing when it is delivered, it
\* goes through the document lookup, and the first value it persists is 10
C7_FailedThenRerunFromTop ==
  \A w \in Invocations :
    /\ (Exists(w) /\ pc[w] \in {"retry_check", "retry_wait"}) =>
         /\ Doc(w)["status"] = "failed"
         /\ Doc(w)["progress"] = 0
         /\ Doc(w)["error"] = error_msg[w]
    /\ pc[w] = "retry_wait" => retries[w] < max_retries
    /\ pc[w] = "queued" => attempt[w] = NewAttempt /\ runs[w] = retries[w]
    /\ pc[w] \notin {"none", "queued"} => runs[w] = retries[w] + 1
    /\ attempt[w].progress # << >> => attempt[w].progress[1] = 10

\* a retried run failed again: the document reads failed while the second
\* retry is pending
C7_Witness ==
  /\ pc[1] = "retry_wait"
  /\ retries[1] = 1
  /\ runs[1] = 2
  /\ Exists(1)
  /\ Doc(1)["status"] = "failed"
  /\ Doc(1)["error"] = error_msg[1]

\* C8 as stated: every enqueue of an existing document leads to a state in
\* which the invocation has ended, no retry is pending and the status is
\* completed or failed
C8_ReachesTerminalStatus ==
  \A w \in Invocations :
    (pc[w] = "queued" /\ Exists(w))
      ~> (Terminated(w) /\ Exists(w) /\ Doc(w)["status"] \in {"completed", "failed"})

\* C9 as stated: when extraction fails, parse_contract returns a result
\* instead of raising
C9_ReturnsOnExtractionFailure ==
  \A w \in Invocations :
    (attempt[w].extraction = "failed" /\ pc[w] \in {"retry_wait", "raised"})
      => result[w]["kind"] = "return"

\* ======================================================================
\* Properties of calculate_score (under SpecScore)
\* ======================================================================
\* C10: calculate_score returns an integer between 0 and 100, and 0 for the
\* empty record
C10_ScoreRange ==
  fn = "calculate_score" =>
    /\ ret[1] \in 0..100
    /\ DOMAIN arg = {} => ret[1] = 0

\* the score of a fully populated record
C10_Witness ==
  /\ fn = "calculate_score"
  /\ DOMAIN arg = {"financial_details", "parties", "payment_structure", "sla_terms",
                   "contact_information"}
  /\ ret = << 100 >>

\* C11: calculate_score is the sum of the five category scores: financial
\* 10 total value + 10 at least one line item + 5 currency + 5 tax information;
\* party 0 below two parties, else 15 + 5 some legal entity + 5 some authorized
\* signatory; payment 8 terms + 6 schedule + 6 method; SLA 5 each for response
\* time, uptime guarantee, penalties; contact 5 billing + 5 technical; each at
\* most its weight, an absent or empty category giving 0
Points(cond, n) == IF cond THEN n ELSE 0

C11_Financial ==
  IF TruthyDict(arg, "financial_details")
  THEN Points(TruthyStr(arg["financial_details"], "total_value"), 10)
     + Points(TruthySeq(arg["financial_details"], "line_items"), 10)
     + Points(TruthyStr(arg["financial_details"], "currency"), 5)
     + Points(TruthyDict(arg["financial_details"], "tax_information"), 5)
  ELSE 0

C11_Party ==
  IF "parties" \in DOMAIN arg /\ Len(arg["parties"]) >= 2
  THEN 15
     + Points(\E i \in 1..Len(arg["parties"]) :
                 TruthyStr(arg["parties"][i], "legal_entity"), 5)
     + Points(\E i \in 1..Len(arg["parties"]) :
                 TruthyStr(arg["parties"][i], "authorized_signatory"), 5)
  ELSE 0

C11_Payment ==
  IF TruthyDict(arg, "payment_structure")
  THEN Points(TruthyStr(arg["payment_structure"], "terms"), 8)
     + Points(TruthyStr(arg["payment_structure"], "schedule"), 6)
     + Points(TruthyStr(arg["payment_structure"], "method"), 6)
  ELSE 0

C11_Sla ==
  IF TruthyDict(arg, "sla_terms")
  THEN Points(TruthyStr(arg["sla_terms"], "response_time"), 5)
     + Points(TruthyStr(arg["sla_terms"], "uptime_guarantee"), 5)
     + Points(TruthyStr(arg["sla_terms"], "penalties"), 5)
  ELSE 0

C11_Contact ==
  IF TruthyDict(arg, "contact_information")
  THEN Points(TruthyStr(arg["contact_information"], "billing_contact"), 5)
     + Points(TruthyStr(arg["contact_information"], "technical_contact"), 5)
  ELSE 0

When(cond, triple) == IF cond THEN << triple >> ELSE << >>

C12_Expected ==
     (IF ~TruthyDict(arg, "financial_details")
      THEN << << "Financial Details", "High", "Missing" >> >>
      ELSE When(~TruthyStr(arg["financial_details"], "total_value"),
                << "Contract Value", "High", "Missing" >>)
        \o When(~TruthyStr(arg["financial_details"], "currency"),
                << "Currency", "Medium", "Missing" >>))
  \o When(~TruthySeq(arg, "parties") \/ Len(arg["parties"]) < 2,
          << "Contract Parties", "High", "Incomplete" >>)
  \o (IF ~TruthyDict(arg, "payment_structure")
      THEN << << "Payment Terms", "High", "Missing" >> >>
      ELSE When(~TruthyStr(arg["payment_structure"], "terms"),
                << "Payment Schedule", "High", "Missing" >>))
  \o When(~TruthyDict(arg, "sla_terms"),
          << "Service Level Agreements", "Medium", "Missing" >>)
  \o When(~TruthyDict(arg, "contact_information"),
          << "Contact Information", "Medium", "Missing" >>)

C12_GapsInRuleOrder ==
  fn = "identify_gaps" =>
    /\ [i \in 1..Len(ret[1]) |->
          << ret[1][i].field, ret[1][i].importance, ret[1][i].status >>] = C12_Expected
    /\ ( /\ TruthyDict(arg, "financial_details")
         /\ TruthyStr(arg["financial_details"], "total_value")
         /\ TruthyStr(arg["financial_details"], "currency")
         /\ TruthySeq(arg, "parties") /\ Len(arg["parties"]) >= 2
         /\ TruthyDict(arg, "payment_structure")
         /\ TruthyStr(arg["payment_structure"], "terms")
         /\ TruthyDict(arg, "sla_terms")
         /\ TruthyDict(arg, "contact_information") ) => ret[1] = << >>

\* financial details without value and currency, one party, a payment
\* structure without terms, no SLA terms, no contact information: six gaps
C12_Witness ==
  /\ fn = "identify_gaps"
  /\ Len(ret[1]) = 6
  /\ ret[1][1].field = "Contract Value"
  /\ ret[1][2].field = "Currency"
  /\ ret[1][3].field = "Contract Parties"
  /\ ret[1][4].field = "Payment Schedule"

\* ======================================================================
\* Properties of extract_confidence_score (under SpecMatch)
\* ======================================================================
\* C13 as stated: without a match the result has the three fields value = None,
\* confidence = 0 and matches_count = 0
C13_NoMatchThreeFields ==
  (fn = "extract_confidence_score" /\ arg.matches = << >>) =>
    /\ DOMAIN ret[1] = {"value", "confidence", "matches_count"}
    /\ ret[1]["value"] = None
    /\ ret[1]["confidence"] = 0
    /\ ret[1]["matches_count"] = 0

\* the field name lies within 50 characters on each side of the occurrence
\* the pattern matched
NameNearMatch ==
  \E f \in arg.names :
    /\ arg.hits[arg.at] - 50 <= f
    /\ f + arg.name_len <= arg.hits[arg.at] + arg.hit_len + 50

\* C14 as stated: with n >= 1 matches the confidence is min(85 + 5n, 95), and
\* 95 when n = 1 and the field name lies within 50 characters on each side of
\* the match: 90 for a single match without it, 95 with it, 95 for n >= 2; every
\* confidence is in 0..95
C14_BoostInWindow ==
  fn = "extract_confidence_score" =>
    /\ ret[1]["confidence"] \in 0..95
    /\ Len(arg.matches) >= 2 => ret[1]["confidence"] = 95
    /\ Len(arg.matches) = 1 =>
         ret[1]["confidence"] = IF NameNearMatch THEN 95 ELSE 90

\* ======================================================================
\* Properties of the single-valued fields (under SpecFields)
\* ======================================================================
\* the index of the first pattern of a field with at least one match, or 0
FirstWithMatch(f) ==
  IF \E i \in 1..Len(arg[f]) : Len(arg[f][i].matches) >= 1
  THEN SetMin({i \in 1..Len(arg[f]) : Len(arg[f][i].matches) >= 1})
  ELSE 0

\* the value a pattern's matches give: the string of a single match, the list
\* of several
ValueOf(scan) == IF Len(scan.matches) = 1 THEN scan.matches[1] ELSE scan.matches

\* field f is stored under key with its confidence under ckey, both taken from
\* the first pattern with a match, which is the last one evaluated
FromFirstPattern(f, key, ckey, net) ==
  LET h == FirstWithMatch(f)
  IN  IF h = 0
      THEN /\ key \notin DOMAIN ret[1]
           /\ ckey \notin DOMAIN ret[1]
           /\ ret[2][f] = Len(arg[f])
      ELSE /\ key \in DOMAIN ret[1]
           /\ ckey \in DOMAIN ret[1]
           /\ ret[1][key] = IF net THEN << "Net ", ValueOf(arg[f][h]) >>
                                   ELSE ValueOf(arg[f][h])
           /\ ret[1][ckey] = extract_confidence_score(arg[f][h])["confidence"]
           /\ ret[1][ckey] = IF arg[f][h].names = {} /\ Len(arg[f][h].matches) = 1
                             THEN 90 ELSE 95
           /\ ret[2][f] = h

\* C15: each single-valued field (payment terms, schedule, method; SLA response
\* time, uptime, penalties; account number) takes its value and its confidence
\* from the first pattern of its list that has a match, no later pattern is
\* evaluated, and the field and its confidence are absent exactly when no
\* pattern matches
C15_FirstPatternWins ==
  /\ fn = "_extract_payment_structure" =>
       /\ FromFirstPattern("terms", "terms", "terms_confidence", TRUE)
       /\ FromFirstPattern("schedule", "schedule", "schedule_confidence", FALSE)
       /\ FromFirstPattern("method", "method", "method_confidence", FALSE)
  /\ fn = "_extract_sla_terms" =>
       /\ FromFirstPattern("response_time", "response_time", "response_time_confidence", FALSE)
       /\ FromFirstPattern("uptime", "uptime_guarantee", "uptime_confidence", FALSE)
       /\ FromFirstPattern("penalties", "penalties", "penalties_confidence", FALSE)
  /\ fn = "_extract_account_information" =>
       FromFirstPattern("account_number", "account_number", "account_confidence", FALSE)

\* the second and the fourth terms pattern match: the second one is stored
\* with its confidence and the third and fourth are not evaluated
C15_Witness ==
  /\ fn = "_extract_payment_structure"
  /\ Len(arg["terms"][1].matches) = 0
  /\ Len(arg["terms"][2].matches) = 1
  /\ arg["terms"][2].names = {}
  /\ Len(arg["terms"][4].matches) = 2
  /\ ret[1]["terms"] = << "Net ", "45" >>
  /\ ret[1]["terms_confidence"] = 90
  /\ ret[2]["terms"] = 2

\* ======================================================================
\* Properties of _extract_parties and _extract_line_items (under SpecParties)
\* ======================================================================
\* a string without the blanks at its ends
Trimmed(str) ==
  SelectSeq(str, LAMBDA piece : piece # " ")

\* the first occurrences of the elements of a list, in order
RECURSIVE Distinct(_, _)
Distinct(list, seen) ==
  IF Len(list) = 0 THEN << >>
  ELSE IF Head(list) \in seen THEN Distinct(Tail(list), seen)
  ELSE << Head(list) >> \o Distinct(Tail(list), seen \cup {Head(list)})

FirstN(list, n) == SubSeq(list, 1, IF Len(list) < n THEN Len(list) ELSE n)

\* the trimmed candidates of all patterns, in pattern order then match order
TrimmedCandidates ==
  LET all == Flatten(arg.found) IN [i \in 1..Len(all) |-> Trimmed(all[i])]

ReturnedNames == [i \in 1..Len(ret[1]) |-> ret[1][i]["name"]]

\* C16 as stated: the parties returned are the first 4 of the deduplicated
\* trimmed candidates of all patterns
C16_FirstFourOfCandidates ==
  fn = "_extract_parties" =>
    ReturnedNames = FirstN(Distinct(TrimmedCandidates, {}), 4)

\* C16 amended: the parties returned are the first 4, in collection order, of
\* the distinct trimmed candidates of all patterns that are longer than 3
\* characters; there are at most 4 of them and no two have the same name; and
\* _extract_line_items returns at most 10 items, the first 10 matches
C16_FirstFourOfLongCandidates ==
  /\ fn = "_extract_parties" =>
       /\ ReturnedNames =
            FirstN(Distinct(SelectSeq(TrimmedCandidates,
                                      LAMBDA n : StrLen(arg.chars, n) > 3), {}), 4)
       /\ Len(ret[1]) <= 4
       /\ \A i, j \in 1..Len(ret[1]) : ret[1][i]["name"] = ret[1][j]["name"] => i = j
  /\ fn = "_extract_line_items" =>
       /\ Len(ret[1]) <= 10
       /\ Len(ret[1]) = IF Len(arg.lines) < 10 THEN Len(arg.lines) ELSE 10
       /\ \A i \in 1..Len(ret[1]) : ret[1][i]["quantity"] = arg.lines[i][2]

\* five distinct long names, a short one and a repeated one with trailing
\* blanks were found; the fifth long name is cut off
C16_Witness ==
  /\ fn = "_extract_parties"
  /\ arg.found = << << Candidates[6], Candidates[1] >>,
                    << Candidates[7], Candidates[2] >>,
                    << Candidates[3], Candidates[4] >> >>
  /\ ReturnedNames = << Candidates[1], Candidates[2], Candidates[3], Candidates[4] >>

\* ======================================================================
\* Properties of _extract_currency (under SpecCurrency)
\* ======================================================================
\* C17: the currency is USD when a USD symbol or token is present, else EUR
\* when a EUR one is, else GBP when a GBP one is, else none, whatever symbol
\* the extracted amount carries: a text with a "$" amount and the token EUR
\* gives USD
C17_FixedPriority ==
  fn = "_extract_currency" =>
    LET usd == \E t \in arg.tokens : t \in {"$", "USD", "US Dollar"}
        eur == \E t \in arg.tokens : t \in {"€", "EUR", "Euro"}
        gbp == \E t \in arg.tokens : t \in {"£", "GBP", "British Pound"}
    IN  /\ ret[1] = "USD" <=> usd
        /\ ret[1] = "EUR" <=> ~usd /\ eur
        /\ ret[1] = "GBP" <=> ~usd /\ ~eur /\ gbp
        /\ ret[1] = None <=> ~usd /\ ~eur /\ ~gbp
        /\ (arg.amount = "$" /\ "EUR" \in arg.tokens) => ret[1] = "USD"
        /\ (arg.amount = "€" /\ "USD" \in arg.tokens) => ret[1] = "USD"

\* a "$" amount and the token EUR
C17_Witness ==
  /\ fn = "_extract_currency"
  /\ arg = [tokens |-> {"$", "EUR"}, amount |-> "$"]
  /\ ret = << "USD" >>

\* ======================================================================
\* Properties of extract_data in the pipeline (under Spec)
\* ======================================================================
\* C18: for a document whose text has fewer than 100 characters once trimmed
\* (the empty text included) extract_data never returns a record, not even a
\* partial one, and the document is never completed; the failure is handled
\* like any extraction failure: a retry is scheduled while retries remain and
\* the invocation ends only after max_retries retries; for a text of 100
\* characters or more the insufficient-content error never occurs
C18_InsufficientText ==
  \A w \in Invocations :
    (Exists(w) /\ pc[w] # "none") =>
      LET text == FileText(Doc(w)["original_file"])
      IN  /\ text.len - text.blank < 100 =>
               /\ attempt[w].extraction # "ok"
               /\ \A i \in 1..Len(ext_log[w]) : ext_log[w][i] = "failed"
               /\ extracted_data[w] = EmptyDict
               /\ pc[w] # "returned"
               /\ Doc(w)["status"] # "completed"
               /\ (pc[w] = "raised" /\ ~other_fault[w]) =>
                    /\ retries[w] = max_retries
                    /\ Doc(w)["status"] = "failed"
          /\ text.len - text.blank >= 100 => error_msg[w] # InsufficientMsg

\* a text of 101 characters, 99 once trimmed: the first run failed for
\* insufficient content and a retry is pending
C18_Witness ==
  /\ pc[1] = "retry_wait"
  /\ retries[1] = 0
  /\ Exists(1)
  /\ Doc(1)["original_file"] = "padded.pdf"
  /\ error_msg[1] = InsufficientMsg
  /\ Doc(1)["status"] = "failed"

\* ======================================================================
\* Properties of _calculate_section_confidence (under SpecSections); the
\* entries are in hundredths
\* ======================================================================
\* the confidences recorded in a section of the argument
Recorded(section) ==
  IF section \notin DOMAIN arg THEN << >>
  ELSE CASE section = "parties" ->
              LET with == SelectSeq(arg["parties"], LAMBDA q : "confidence" \in DOMAIN q)
              IN  [i \in 1..Len(with) |-> with[i]["confidence"]]
         [] section = "financial_details" -> FinancialConfidences(arg[section])
         [] section = "payment_structure" ->
              KeyConfidences(arg[section],
                << "terms_confidence", "schedule_confidence", "method_confidence" >>)
         [] section = "sla_terms" ->
              KeyConfidences(arg[section],
                << "response_time_confidence", "uptime_confidence", "penalties_confidence" >>)
         [] OTHER -> KeyConfidences(arg[section], << "account_confidence" >>)

ConfidenceSections ==
  {"parties", "financial_details", "payment_structure", "sla_terms", "account_information"}

NonEmptySection(section) ==
  /\ section \in DOMAIN arg
  /\ IF section = "parties" THEN Len(arg[section]) > 0 ELSE DOMAIN arg[section] # {}

\* C20 as stated: every section among parties, financial_details,
\* payment_structure, sla_terms and account_information that is present and
\* non-empty has an entry between 0 and 100, with or without a confidence field
C20_EntryForNonEmptySection ==
  fn = "_calculate_section_confidence" =>
    \A section \in ConfidenceSections :
      NonEmptySection(section) =>
        /\ section \in DOMAIN ret[1]
        /\ ret[1][section] \in 0..(100 * 100)


\* ======================================================================
\* Further properties of the pipeline (under Spec)
\* ======================================================================
\* the retried run of invocation w has not yet made its first write
BeforeFirstWriteOfRetry(w) ==
  \/ pc[w] \in {"retry_check", "retry_wait"}
  \/ retries[w] > 0 /\ pc[w] \in {"queued", "set_processing"}

\* C21: the runs of one invocation do not overlap: from the handler's failed
\* write until the retried run's first write the document reads failed with
\* progress 0 and the run's message, and the only write made to the store in
\* between is the retried run's progress-10 write
C21_NoWriteBeforeRetryStarts ==
  [][\A w \in Invocations :
       (BeforeFirstWriteOfRetry(w) /\ Exists(w)) =>
         /\ Doc(w)["status"] = "failed"
         /\ Doc(w)["progress"] = 0
         /\ Doc(w)["error"] = error_msg[w]
         /\ store' # store =>
              /\ pc[w] = "set_processing"
              /\ store' = update_one(store, contract_id[w], ProcessingUpdate(now))]_vars

\* the retried run has made its progress-10 write over the failed document
C21_Witness ==
  /\ pc[1] = "progress30"
  /\ retries[1] = 1
  /\ Exists(1)
  /\ Doc(1)["status"] = "processing"
  /\ Doc(1)["progress"] = 10
  /\ "error" \in DOMAIN Doc(1)


\* C23: with one invocation in flight for the id, every persisted document
\* has progress 0 when pending, progress 10, 30, 60 or 80 when processing,
\* progress 0 and an error when failed, and progress 100 with extracted_data,
\* score, gaps, confidence_scores and processing_completed_at when completed;
\* progress 100 is persisted only with status completed
C23_StatusProgressCoupling ==
  \A id \in DOMAIN store :
    LET doc == store[id]
    IN  /\ doc["status"] \in {"pending", "processing", "failed", "completed"}
        /\ doc["status"] = "pending" => doc["progress"] = 0
        /\ doc["status"] = "processing" => doc["progress"] \in {10, 30, 60, 80}
        /\ doc["status"] = "failed" =>
             /\ doc["progress"] = 0
             /\ "error" \in DOMAIN doc
        /\ doc["status"] = "completed" =>
             /\ doc["progress"] = 100
             /\ {"extracted_data", "score", "gaps", "confidence_scores",
                 "processing_completed_at"} \subseteq DOMAIN doc
        /\ doc["progress"] = 100 => doc["status"] = "completed"

\* the last run persisted 10, 30 and 60, then failed: the document reads
\* failed with progress 0 after the final write
C23_Witness ==
  /\ pc[1] = "raised"
  /\ result[1]["info"] = "ProcessingError"
  /\ attempt[1].progress = << 10, 30, 60 >>
  /\ Doc(1)["status"] = "failed"
  /\ Doc(1)["progress"] = 0
  /\ HasMaxRetriesPrefix(Doc(1)["error"])

\* C24: whatever fails, the body is run at most max_retries + 1 = 4 times for
\* one enqueue, a retry is scheduled only while request.retries is 0, 1 or 2,
\* and the "Max retries exceeded" write is reached only in the run with
\* request.retries = 3, the fourth, after its failure
C24_AtMostFourRuns ==
  \A w \in Invocations :
    /\ runs[w] <= max_retries + 1
    /\ retries[w] \in 0..max_retries
    /\ runs[w] \in {retries[w], retries[w] + 1}
    /\ pc[w] = "retry_wait" => retries[w] \in 0..(max_retries - 1)
    /\ pc[w] = "max_retries" => retries[w] = 3 /\ runs[w] = 4
    /\ (pc[w] # "none" /\ Exists(w) /\ "error" \in DOMAIN Doc(w)
          /\ HasMaxRetriesPrefix(Doc(w)["error"])) =>
         retries[w] = 3 /\ runs[w] = 4 /\ pc[w] = "raised"

\* four runs failed on store errors before any extraction, and the final
\* write was made
C24_Witness ==
  /\ pc[1] = "raised"
  /\ runs[1] = 4
  /\ ext_log[1] = << >>
  /\ error_msg[1] = StoreMsg
  /\ Exists(1)
  /\ Doc(1)["error"] = << "Max retries exceeded: " >> \o StoreMsg

\* C25: the completing write leaves the error field as it finds it: a run
\* about to complete or completed finds no error on the first run and, on a
\* retried run, the message the handler wrote for the last failed run, which
\* a completed document therefore still carries
C25_CompletedKeepsError ==
  \A w \in Invocations :
    (Exists(w) /\ pc[w] \in {"complete", "returned"}) =>
      /\ "error" \in DOMAIN Doc(w) <=> retries[w] > 0
      /\ retries[w] > 0 => Doc(w)["error"] = error_msg[w]
      /\ pc[w] = "returned" => Doc(w)["status"] = "completed"

\* a document completed by the second run still carries the message of the
\* first
C25_Witness ==
  /\ pc[1] = "returned"
  /\ retries[1] = 1
  /\ Doc(1)["status"] = "completed"
  /\ Doc(1)["progress"] = 100
  /\ Doc(1)["error"] = TransientMsg

\* C26: the step after a successful computation of score and gaps goes on to
\* the completing write whether or not its progress-80 write succeeds; when
\* the write fails the run carries score 0 and no gaps as for any scoring
\* failure; and a run whose scoring step failed never persists progress 80:
\* when it returns it has persisted 10, 30, 60, 100 with score 0 and no gaps
C26_Progress80InsideScoringTry ==
  [][\A w \in Invocations :
       /\ (pc[w] = "progress80" /\ pc'[w] # pc[w] /\ Exists(w)) =>
            /\ pc'[w] = "complete"
            /\ IF store' = store
               THEN /\ attempt'[w].scoring = "failed"
                    /\ score'[w] = 0
                    /\ gaps'[w] = << >>
                    /\ attempt'[w].progress = << 10, 30, 60 >>
               ELSE /\ store' = update_one(store, contract_id[w], ProgressUpdate(80, now))
                    /\ attempt'[w].scoring = "ok"
                    /\ score'[w] = calculate_score(extracted_data[w])
                    /\ gaps'[w] = identify_gaps(extracted_data[w])
       /\ (attempt[w].scoring = "failed" /\ attempt'[w].scoring = "failed") =>
            /\ \A i \in 1..Len(attempt'[w].progress) : attempt'[w].progress[i] # 80
            /\ (pc'[w] = "returned" /\ Exists(w)) =>
                 /\ attempt'[w].progress = << 10, 30, 60, 100 >>
                 /\ store'[contract_id[w]]["score"] = 0
                 /\ store'[contract_id[w]]["gaps"] = << >>]_vars

\* a run completed with score 0 and no gaps although the record scores above
\* 0: its scoring step failed and 80 was not persisted
C26_Witness ==
  /\ pc[1] = "returned"
  /\ attempt[1].scoring = "failed"
  /\ calculate_score(extracted_data[1]) > 0
  /\ attempt[1].progress = << 10, 30, 60, 100 >>
  /\ Doc(1)["score"] = 0
  /\ Doc(1)["gaps"] = << >>
  /\ Doc(1)["progress"] = 100

\* ======================================================================
\* Properties of two invocations in flight (under SpecTwo)
\* ======================================================================
WrittenFields ==
  {"status", "progress", "extracted_data", "score", "gaps", "confidence_scores",
   "error", "processing_completed_at", "updated_at"}

\* a document without its timestamps
NoTimes(doc) ==
  [k \in DOMAIN doc \ {"updated_at", "processing_completed_at"} |-> doc[k]]

\* invocation w takes the step
Acts(w) == pc'[w] # pc[w]

\* the state of invocation w apart from its position
Frame(w) ==
  << retries[w], contract_id[w], contract_doc[w], extracted_data[w], score[w],
     gaps[w], error_msg[w], result[w], attempt[w], ext_log[w], runs[w] >>

\* the document a run leaves when it returns, as a function of the run alone:
\* the record as uploaded, the failure of the run before, the completing write
CompletedAlone(id, file, msg, data, sc, gp) ==
  Merge(Merge(NewContract(id, file), FailedUpdate(msg, 0)),
        CompletedUpdate(data, sc, gp, calculate_section_confidence(data), 0))

\* the document the last run leaves when it gives up
GivenUpAlone(id, file, msg) ==
  Merge(Merge(NewContract(id, file), FailedUpdate(msg, 0)), MaxRetriesUpdate(msg, 0))

\* C22: a step of parse_contract(id) reads only the document id, changes no
\* other document and creates none, changes in its own document only fields
\* among status, progress, extracted_data, score, gaps, confidence_scores,
\* error, processing_completed_at and updated_at, and sets updated_at whenever
\* it changes the document; it leaves the other invocation's state alone, and
\* with two invocations for distinct ids the document an invocation leaves
\* when it returns, or when it gives up after its last write, is apart from
\* the timestamps the one determined by its own run
C22_WritesOwnDocumentOnly ==
  [][\A w \in Invocations :
       Acts(w) =>
         /\ DOMAIN store' = DOMAIN store
         /\ \A v \in Invocations \ {w} : pc'[v] = pc[v] /\ Frame(v)' = Frame(v)
         /\ \A id \in DOMAIN store :
              /\ id # contract_id[w] => store'[id] = store[id]
              /\ DOMAIN store'[id] \ DOMAIN store[id] \subseteq WrittenFields
              /\ \A k \in DOMAIN store[id] \ WrittenFields :
                   k \in DOMAIN store'[id] /\ store'[id][k] = store[id][k]
              /\ store'[id] # store[id] => store'[id]["updated_at"] = now
         /\ contract_doc'[w] # contract_doc[w] =>
              contract_doc'[w] = store[contract_id[w]]
         /\ (contract_id[1] # contract_id[2] /\ pc'[w] = "returned") =>
              NoTimes(store'[contract_id[w]]) =
                NoTimes(CompletedAlone(contract_id[w], Doc(w)["original_file"],
                                       error_msg[w], extracted_data[w], score[w],
                                       gaps[w]))
         /\ (contract_id[1] # contract_id[2] /\ pc[w] = "max_retries"
               /\ result'[w]["info"] = "ProcessingError") =>
              NoTimes(store'[contract_id[w]]) =
                NoTimes(GivenUpAlone(contract_id[w], Doc(w)["original_file"],
                                     error_msg[w]))]_vars

\* two runs for distinct ids have both ended, one completed and one given up
C22_Witness ==
  /\ contract_id[2] = "c2"
  /\ pc[1] = "returned"
  /\ result[2]["info"] = "ProcessingError"
  /\ store["c1"]["status"] = "completed"
  /\ HasMaxRetriesPrefix(store["c2"]["error"])
  /\ store["c1"]["updated_at"] < store["c2"]["updated_at"]
  /\ store["c1"]["updated_at"] > 3


\* ======================================================================
\* Properties of extract_data followed by calculate_score (under SpecExtract)
\* ======================================================================
\* C27: a record extract_data returns has only emails and phones in its
\* contact information and no authorized_signatory on any party, so on such a
\* record the contact category scores 0, the party category at most 20 and
\* calculate_score at most 85
C27_ExtractedScoreAtMost85 ==
  /\ fn = "extract_data" =>
       /\ DOMAIN ret[1]["contact_information"] \subseteq {"emails", "phones"}
       /\ \A i \in 1..Len(ret[1]["parties"]) :
            "authorized_signatory" \notin DOMAIN ret[1]["parties"][i]
  /\ fn = "calculate_score" =>
       /\ ContactScore(arg) = 0
       /\ PartyScore(arg) <= 20
       /\ ret[1] = FinancialScore(arg) + PartyScore(arg) + PaymentScore(arg) + SlaScore(arg)
       /\ ret[1] <= 85

\* a text in which everything is found, e-mail addresses included, scores 85
C27_Witness ==
  /\ fn = "calculate_score"
  /\ "emails" \in DOMAIN arg["contact_information"]
  /\ Len(arg["parties"]) >= 2
  /\ ret = << 85 >>


\* ======================================================================
\* identify_gaps against calculate_score (under SpecBoth)
\* ======================================================================
\* what the parties add to the score of a record
PartyContribution(data) ==
  calculate_score(data) - calculate_score([k \in DOMAIN data \ {"parties"} |-> data[k]])

PartiesGap ==
  Gap("Contract Parties", "High", "Incomplete", "Less than 2 parties identified")

\* C28: identify_gaps reports Contract Parties / High / Incomplete exactly
\* when the record has fewer than 2 parties, which is exactly when the parties
\* add nothing to calculate_score; with 2 parties or more they add at least 15
\* and no such gap is reported
C28_PartyGapIffNoPartyScore ==
  fn = "calculate_score, identify_gaps" =>
    LET n == IF "parties" \in DOMAIN arg THEN Len(arg["parties"]) ELSE 0
        gaps_found == ret[2]
        reported == \E i \in 1..Len(gaps_found) : gaps_found[i] = PartiesGap
        named == \E i \in 1..Len(gaps_found) : gaps_found[i]["field"] = "Contract Parties"
    IN  /\ reported <=> n < 2
        /\ named <=> reported
        /\ ret[1] - calculate_score([k \in DOMAIN arg \ {"parties"} |-> arg[k]])
             = PartyContribution(arg)
        /\ n < 2 <=> PartyContribution(arg) = 0
        /\ n >= 2 => PartyContribution(arg) >= 15

\* a record with one party, which has a legal entity: the gap is reported and
\* the party adds nothing to the score
C28_Witness ==
  /\ fn = "calculate_score, identify_gaps"
  /\ "parties" \in DOMAIN arg
  /\ Len(arg["parties"]) = 1
  /\ arg["parties"][1]["legal_entity"] = "Inc."
  /\ \E i \in 1..Len(ret[2]) : ret[2][i] = PartiesGap
  /\ PartyContribution(arg) = 0

\* ======================================================================
\* Properties of the pipeline with deletions (under SpecDelete)
\* ======================================================================
\* the positions of a run after its lookup found the document
AfterLookup ==
  {"set_processing", "progress30", "extract", "progress60", "scoring", "progress80",
   "complete"}

\* C29: no step creates a record, and a step of the pipeline neither creates
\* nor removes one; once the document is gone a step of the pipeline leaves
\* the store as it is; a run that found the document and then lost it is not
\* sent to the handler by that: it goes there only when a store call or the
\* extraction raises, and otherwise returns completed with no retry scheduled
C29_WritesNeverCreate ==
  [][/\ DOMAIN store' \subseteq DOMAIN store
     /\ \A w \in Invocations :
          pc'[w] # pc[w] =>
            /\ DOMAIN store' = DOMAIN store
            /\ ~Exists(w) => store' = store
            /\ (~Exists(w) /\ pc[w] \in AfterLookup /\ pc'[w] = "except") =>
                 attempt'[w].store_fault \/ attempt'[w].extraction = "failed"
            /\ (~Exists(w) /\ pc'[w] = "returned") =>
                 /\ result'[w] = [kind |-> "return", info |-> "completed"]
                 /\ retries'[w] = retries[w]
                 /\ runs'[w] = runs[w]]_vars

\* the document was deleted after the first run had persisted 10 and 30; the
\* run returned completed, with no retry, and the document is absent
C29_Witness ==
  /\ pc[1] = "returned"
  /\ runs[1] = 1
  /\ retries[1] = 0
  /\ attempt[1].progress = << 10, 30 >>
  /\ ~Exists(1)
  /\ result[1] = [kind |-> "return", info |-> "completed"]


\* ======================================================================
\* Duplicate dispatch (under SpecTwo)
\* ======================================================================
\* C30: nothing serialises the invocations of one id and the last write wins:
\* the first write of a run makes the document processing with progress 10,
\* and the handler's write makes it failed with progress 0, whatever the
\* document's status was, completed included; a document leaves completed
\* only under duplicate dispatch, after the other invocation returned, and
\* then reads processing or failed, with progress below 100 unless the write
\* is the final "Max retries exceeded" one, which leaves the progress alone
C30_CompletedNotStableUnderDuplicates ==
  [][\A w \in Invocations :
       (pc'[w] # pc[w] /\ Exists(w)) =>
         /\ (pc[w] = "set_processing" /\ pc'[w] = "progress30") =>
              /\ store'[contract_id[w]]["status"] = "processing"
              /\ store'[contract_id[w]]["progress"] = 10
         /\ (pc[w] = "except" /\ pc'[w] = "retry_check") =>
              /\ store'[contract_id[w]]["status"] = "failed"
              /\ store'[contract_id[w]]["progress"] = 0
         /\ (Doc(w)["status"] = "completed" /\ StatusChanges(contract_id[w])) =>
              /\ contract_id[1] = contract_id[2]
              /\ \E v \in Invocations \ {w} : pc[v] = "returned"
              /\ store'[contract_id[w]]["status"] \in {"processing", "failed"}
              /\ IF pc[w] = "max_retries"
                 THEN store'[contract_id[w]]["progress"] = 100
                 ELSE store'[contract_id[w]]["progress"] < 100]_vars

\* invocation 1 completed the document and returned; the duplicate then made
\* its first write: the document reads processing with progress 10 and still
\* holds the results of invocation 1
C30_Witness ==
  /\ contract_id[2] = contract_id[1]
  /\ pc[1] = "returned"
  /\ pc[2] = "progress30"
  /\ Doc(1)["status"] = "processing"
  /\ Doc(1)["progress"] = 10
  /\ "extracted_data" \in DOMAIN Doc(1)
  /\ "processing_completed_at" \in DOMAIN Doc(1)

====
